---- MODULE Spec2Model ----
(***************************************************************************)
(* Model of lime's X3DH engine (src/src/lime_x3dh.cpp) and of the          *)
(* directory client of a Lime instance (src/src/lime_x3dh_protocol.cpp).   *)
(*                                                                         *)
(* Two specifications share the variables:                                 *)
(*   SpecX3DH  the X3DH engine called directly: the sender derivation over *)
(*             a list of peer bundles and the receiver derivation on the   *)
(*             peer from the init message the sender built;                *)
(*   Spec      one Lime instance: encrypt, its queue, the requests posted  *)
(*             to the X3DH server and process_response.                    *)
(***************************************************************************)
EXTENDS Integers, Sequences, FiniteSets, TLC

(***************************************************************************)
(* Bounds of the model.                                                    *)
(***************************************************************************)
\* DSA<Curve, publicKey>::ssize(), scaled down: the length of F and of an Ik.
EdKeyLen == 2
\* X<Curve, sharedSecret>::ssize(), scaled down: the length of one DH output.
DHLen == 2
\* Longest list of bundles one peerBundle response carries.
MaxBundles == 2
\* Bytes of a signature.
SigLen == 2
\* Calls of encrypt by the application in one behaviour.
MaxEncrypts == 3
\* Requests the X3DH server answers (or fails to) in one behaviour.
MaxAnswers == 2

\* The Lime instance under study and the peer devices it talks to.
SelfDevice == "A"
Peers == {"B", "C"}
Devices == {SelfDevice} \cup Peers

(***************************************************************************)
(* Crypto primitives, consumed by the engine as typed primitives.  The     *)
(* curve is stood in for by the multiplicative group modulo a small prime: *)
(* a private key is an exponent, a key-exchange public key is G^k.         *)
(***************************************************************************)
CurveP == 23
CurveG == 5

RECURSIVE PowMod(_, _)
PowMod(b, e) ==
    IF e = 0 THEN 1
    ELSE IF e % 2 = 1 THEN (b * PowMod(b, e - 1)) % CurveP
    ELSE LET half == PowMod(b, e \div 2) IN (half * half) % CurveP

\* createKeyPair / set_selfPublic: the key-exchange public key of a secret.
XPublic(k) == PowMod(CurveG, k)

\* The signature-format (EdDSA) public key of a secret: another encoding of
\* the same point.
EdPublic(k) == CurveP - XPublic(k)

\* set_peerPublic(Ik): a signature public key converted to key-exchange format.
EdToX(edPub) == CurveP - edPub

\* computeSharedSecret
DH(secret, peerPublic) == PowMod(peerPublic, secret)

\* Signature of message msg under the signature secret k.
Sign(k, msg) == msg * k

\* SPkVerify->verify(SPk, SPk_sig) under set_public(Ik)
Verify(Ik, msg, sig) == PowMod(CurveG, sig) = PowMod(EdToX(Ik), msg)

\* A key or a shared secret as a buffer of len bytes (big endian).
Bytes(v, len) == [i \in 1..len |-> IF i = len THEN v ELSE 0]

\* Mutant of cleanBuffer: the buffer keeps what it holds.
cleanBufferKeeping(buf) == buf

\* cleanBuffer
cleanBuffer(buf) == [i \in 1..Len(buf) |-> 0]

\* The destructor of a shared secret (X<Curve, sharedSecret>): the buffer is
\* zeroized when the variable goes out of scope.
DestroySharedSecret(buf) == [i \in 1..Len(buf) |-> 0]

\* bctbx_hmacSha512, a collision-free stand-in.
hmacSha512(key, input) == <<"HMAC", key, input>>

\* X3DH_HKDF: one round of HKDF with a zero-filled salt.
ZeroFilledSalt == [i \in 1..(2 * DHLen) |-> 0]
X3DH_HKDF(input, info) ==
    LET prk == hmacSha512(ZeroFilledSalt, input)
    IN  hmacSha512(prk, <<info, 1>>)

\* The bytes of the output of the first HMAC, as the prk array holds them: a
\* stand-in without a zero byte.
PrkBytes(input) ==
    [i \in 1..Len(ZeroFilledSalt) |-> 1 + ((i + Len(input)) % 255)]

\* The prk array of X3DH_HKDF when the function returns.
X3DH_HKDF_prk(input) == cleanBuffer(PrkBytes(input))

\* The buffers of one key derivation when the function is left: HKDF_input
\* (input is what it held when X3DH_HKDF was called), the prk array of
\* X3DH_HKDF and DH_out, which held the last shared secret computed.
DerivationBuffers(HKDF_input, lastDH) ==
    [input      |-> HKDF_input,
     HKDF_input |-> cleanBuffer(HKDF_input),
     prk        |-> X3DH_HKDF_prk(HKDF_input),
     DH_out     |-> DestroySharedSecret(lastDH)]

X3DH_SK_info == "Lime"
X3DH_AD_info == "X3DH Associated Data"

(***************************************************************************)
(* Key material of the devices.                                            *)
(***************************************************************************)
IkSecret == [d \in Devices |-> CASE d = "A" -> 2 [] d = "B" -> 3 [] OTHER -> 4]
\* Signed prekeys and one-time prekeys every device generated: id -> secret.
SPkIds == {1, 2}
OPkIds == {1, 2}
SPkSecret == [d \in Devices |-> [id \in SPkIds |->
                 CASE d = "A" -> 4 + id [] d = "B" -> 6 + id [] OTHER -> 8 + id]]
OPkSecret == [d \in Devices |-> [id \in OPkIds |->
                 CASE d = "A" -> 10 + id [] d = "B" -> 12 + id [] OTHER -> 14 + id]]
\* Ephemeral secrets m_RNG may draw in createKeyPair: the first of a call, and
\* the one of the i-th bundle of the call after it.
EkSecrets == {17, 18}
EkOf(ek0, i) == ek0 + 2 * (i - 1)

\* Device ids as byte strings.
DeviceIdBytes(d) ==
    CASE d = "A" -> <<65>> [] d = "B" -> <<66>>
      [] d = "AB" -> <<65, 66>> [] d = "BC" -> <<66, 67>>
      [] OTHER -> <<67>>

(***************************************************************************)
(* X3DH_peerBundle: what the server returns for one device.                *)
(***************************************************************************)
\* A bundle for device id d holding the keys of device owner (d itself unless
\* the bundle is another identity's), with SPk spk and OPk opk (0: no OPk);
\* sigDelta is added to the signature (0: the genuine signature).
PeerBundle(d, owner, spk, opk, sigDelta) ==
    [deviceId |-> d,
     Ik       |-> EdPublic(IkSecret[owner]),
     SPk      |-> XPublic(SPkSecret[owner][spk]),
     SPk_id   |-> spk,
     SPk_sig  |-> Sign(IkSecret[owner], XPublic(SPkSecret[owner][spk])) + sigDelta,
     haveOPk  |-> opk # 0,
     OPk      |-> IF opk = 0 THEN 0 ELSE XPublic(OPkSecret[owner][opk]),
     OPk_id   |-> opk]

(***************************************************************************)
(* std::vector<uint8_t>: the bytes and the capacity of the buffer.  An     *)
(* insertion that outgrows the capacity reallocates the buffer.            *)
(***************************************************************************)
vector(n, v) == [data |-> [i \in 1..n |-> v], cap |-> n]

reserve(vec, n) == [vec EXCEPT !.cap = IF n > @ THEN n ELSE @]

Reallocates(vec, bytes) == Len(vec.data) + Len(bytes) > vec.cap

\* insert(pos, first, last) with pos the index the bytes are put at.
insert(vec, pos, bytes) ==
    [data |-> SubSeq(vec.data, 1, pos - 1) \o bytes
                  \o SubSeq(vec.data, pos, Len(vec.data)),
     cap  |-> IF Reallocates(vec, bytes)
              THEN Len(vec.data) + Len(bytes) ELSE vec.cap]

\* cend(): the index one past the last byte.
cend(vec) == Len(vec.data) + 1

(***************************************************************************)
(* The X3DH init message (built and parsed by double_ratchet_protocol):    *)
(* <<OPk flag, Ik, Ek, SPk id, OPk id>>; <<>> is no init message.          *)
(***************************************************************************)
buildMessage_X3DHinit(Ik, Ek, SPk_id, OPk_id, OPk_flag) ==
    <<IF OPk_flag THEN 1 ELSE 0, Ik, Ek, SPk_id, OPk_id>>

parseMessage_X3DHinit(m) ==
    [peerIk |-> m[2], Ek |-> m[3], SPk_id |-> m[4], OPk_id |-> m[5],
     OPk_flag |-> m[1] # 0]

(***************************************************************************)
(* Local storage: the peer devices table, a sequence of rows; the row id   *)
(* is the index.                                                           *)
(***************************************************************************)
PeerRow(peers, deviceId) ==
    IF \E i \in 1..Len(peers) : peers[i].deviceId = deviceId
    THEN CHOOSE i \in 1..Len(peers) : peers[i].deviceId = deviceId
    ELSE 0

\* store_peerDevice: the row id of the device, inserted if it is new; throws
\* when the device is known with another Ik.
store_peerDevice(peers, deviceId, Ik) ==
    LET row == PeerRow(peers, deviceId)
    IN  IF row = 0
        THEN [threw |-> FALSE, peerDid |-> Len(peers) + 1,
              peers |-> Append(peers, [deviceId |-> deviceId, Ik |-> Ik])]
        ELSE IF peers[row].Ik = Ik
        THEN [threw |-> FALSE, peerDid |-> row, peers |-> peers]
        ELSE [threw |-> TRUE, peerDid |-> 0, peers |-> peers]

(***************************************************************************)
(* Lime<Curve>::X3DH_init_sender_session                                   *)
(***************************************************************************)
\* Mutant of SenderHKDFInput: DH4 is appended whether or not the bundle holds an OPk.
SenderHKDFInputAlwaysDH4(self, b, ek) ==
    LET v0 == reserve(vector(EdKeyLen, 255), EdKeyLen + DHLen * 4)
        v1 == insert(v0, cend(v0), Bytes(DH(IkSecret[self], b.SPk), DHLen))
        v2 == insert(v1, cend(v1), Bytes(DH(ek, EdToX(b.Ik)), DHLen))
        v3 == insert(v2, cend(v2), Bytes(DH(ek, b.SPk), DHLen))
    IN  insert(v3, cend(v3), Bytes(DH(ek, b.OPk), DHLen))

\* The HKDF input of the sender for one bundle: F || DH1 || DH2 || DH3 [|| DH4],
\* every DH appended at the end of the buffer.
SenderHKDFInput(self, b, ek) ==
    LET v0 == reserve(vector(EdKeyLen, 255), EdKeyLen + DHLen * 4)
        DH1 == Bytes(DH(IkSecret[self], b.SPk), DHLen)
        v1 == insert(v0, cend(v0), DH1)
        DH2 == Bytes(DH(ek, EdToX(b.Ik)), DHLen)
        v2 == insert(v1, cend(v1), DH2)
        DH3 == Bytes(DH(ek, b.SPk), DHLen)
        v3 == insert(v2, cend(v2), DH3)
        DH4 == Bytes(DH(ek, b.OPk), DHLen)
    IN  IF b.haveOPk THEN insert(v3, cend(v3), DH4) ELSE v3

\* AD_input: initiator Ik || receiver Ik || initiator device id || receiver device id
ADInput(initiatorIk, receiverIk, initiatorId, receiverId) ==
    Bytes(initiatorIk, EdKeyLen) \o Bytes(receiverIk, EdKeyLen)
        \o DeviceIdBytes(initiatorId) \o DeviceIdBytes(receiverId)

\* Mutant of SenderSession: the init message carries the public key the
\* key exchange context held before the ephemeral key pair was created.
SenderSessionFirstPublic(self, b, ek, peerDid) ==
    LET HKDF_input == SenderHKDFInput(self, b, ek).data
    IN  [SK   |-> X3DH_HKDF(HKDF_input, X3DH_SK_info),
         AD   |-> X3DH_HKDF(ADInput(EdPublic(IkSecret[self]), b.Ik, self, b.deviceId),
                            X3DH_AD_info),
         SPk  |-> b.SPk,
         peerDid |-> peerDid,
         X3DH_initMessage |->
             buildMessage_X3DHinit(EdPublic(IkSecret[self]),
                                   XPublic(IkSecret[self]), b.SPk_id,
                                   IF b.haveOPk THEN b.OPk_id ELSE 0, b.haveOPk),
         hkdfInput  |-> HKDF_input,
         hkdfBuffer |-> cleanBuffer(HKDF_input)]

\* The DR session the sender makes for a verified bundle (make_shared<DR>).
\* hkdfInput is the buffer as it was handed to X3DH_HKDF and hkdfBuffer the
\* same buffer when the function is left.
SenderSession(self, b, ek, peerDid) ==
    LET HKDF_input == SenderHKDFInput(self, b, ek).data
    IN  [SK   |-> X3DH_HKDF(HKDF_input, X3DH_SK_info),
         AD   |-> X3DH_HKDF(ADInput(EdPublic(IkSecret[self]), b.Ik, self, b.deviceId),
                            X3DH_AD_info),
         SPk  |-> b.SPk,
         peerDid |-> peerDid,
         X3DH_initMessage |->
             buildMessage_X3DHinit(EdPublic(IkSecret[self]), XPublic(ek), b.SPk_id,
                                   IF b.haveOPk THEN b.OPk_id ELSE 0, b.haveOPk),
         hkdfInput  |-> HKDF_input,
         hkdfBuffer |-> cleanBuffer(HKDF_input)]

\* The buffers of the sender for one bundle when the turn of the loop ends:
\* DH_out held DH4 when the bundle has an OPk, DH3 otherwise.
SenderBuffers(self, b, ek) ==
    DerivationBuffers(SenderHKDFInput(self, b, ek).data,
                      Bytes(DH(ek, IF b.haveOPk THEN b.OPk ELSE b.SPk), DHLen))

\* m_DR_sessions_cache, a map from device id to session.
erase(cache, d) == [x \in DOMAIN cache \ {d} |-> cache[x]]
emplace(cache, d, s) == IF d \in DOMAIN cache THEN cache ELSE (d :> s) @@ cache

\* Mutant of InstallSession: the new session replaces a cached one whether or
\* not the bundle holds an OPk.
InstallSessionAlwaysReplace(cache, b, session) ==
    emplace(erase(cache, b.deviceId), b.deviceId, session)

\* The cache after the new session of a bundle was made.
InstallSession(cache, b, session) ==
    emplace(IF b.haveOPk THEN erase(cache, b.deviceId) ELSE cache,
            b.deviceId, session)

\* Mutant of SenderBundle: the peer device is stored before the signature is
\* verified.
SenderBundleStoreFirst(self, st, b, ek) ==
    LET stored == store_peerDevice(st.peers, b.deviceId, b.Ik)
    IN  IF stored.threw
        THEN [st EXCEPT !.threw = TRUE]
        ELSE IF ~Verify(b.Ik, b.SPk, b.SPk_sig)
        THEN [st EXCEPT !.threw = TRUE, !.peers = stored.peers]
        ELSE [st EXCEPT
                !.peers = stored.peers,
                !.cache = emplace(IF b.haveOPk THEN erase(st.cache, b.deviceId)
                                  ELSE st.cache, b.deviceId,
                                  SenderSession(self, b, ek, stored.peerDid)),
                !.built = Append(@, b.deviceId)]

\* One turn of the loop over the bundles.  st is [peers, cache, threw, built]:
\* the peer devices table, the session cache, whether an exception left the
\* function and the device ids a session was made for, in order.
SenderBundle(self, st, b, ek) ==
    IF ~Verify(b.Ik, b.SPk, b.SPk_sig)
    THEN [st EXCEPT !.threw = TRUE]
    ELSE LET stored == store_peerDevice(st.peers, b.deviceId, b.Ik)
         IN  IF stored.threw
             THEN [st EXCEPT !.threw = TRUE]
             ELSE [st EXCEPT
                     !.peers = stored.peers,
                     !.cache = InstallSession(st.cache, b,
                                   SenderSession(self, b, ek, stored.peerDid)),
                     !.built = Append(@, b.deviceId),
                     !.buffers = Append(@, SenderBuffers(self, b, ek))]

\* Mutant of SenderLoop: a bundle that throws is skipped and the loop goes on.
RECURSIVE SenderLoopSkipping(_, _, _, _, _)
SenderLoopSkipping(self, st, bundles, ek0, i) ==
    IF i > Len(bundles)
    THEN st
    ELSE LET one == SenderBundle(self, [st EXCEPT !.threw = FALSE],
                                 bundles[i], EkOf(ek0, i))
         IN  SenderLoopSkipping(self, [one EXCEPT !.threw = st.threw \/ @],
                                bundles, ek0, i + 1)

\* The loop: the bundles in order, left at the first exception.
RECURSIVE SenderLoop(_, _, _, _, _)
SenderLoop(self, st, bundles, ek0, i) ==
    IF i > Len(bundles) \/ st.threw
    THEN st
    ELSE SenderLoop(self, SenderBundle(self, st, bundles[i], EkOf(ek0, i)),
                    bundles, ek0, i + 1)

X3DH_init_sender_session(self, peers, cache, bundles, ek0) ==
    SenderLoop(self, [peers |-> peers, cache |-> cache, threw |-> FALSE,
                      built |-> <<>>, buffers |-> <<>>], bundles, ek0, 1)

(***************************************************************************)
(* Lime<Curve>::X3DH_init_receiver_session                                 *)
(***************************************************************************)
\* X3DH_get_SPk: throws when the id is not in local storage.
X3DH_get_SPk(self, spks, SPk_id) ==
    [threw |-> SPk_id \notin spks,
     secret |-> IF SPk_id \in spks THEN SPkSecret[self][SPk_id] ELSE 0]

\* X3DH_get_OPk: throws when the id is not in local storage; the OPk read is
\* removed from it.
X3DH_get_OPk(self, opks, OPk_id) ==
    [threw |-> OPk_id \notin opks,
     secret |-> IF OPk_id \in opks THEN OPkSecret[self][OPk_id] ELSE 0,
     opks |-> opks \ {OPk_id}]

\* Mutant of LoadSPk: when the SPk the init message names is not in local
\* storage, another SPk of local storage is used.
LoadSPkFallback(self, spks, init) ==
    X3DH_get_SPk(self, spks,
                 IF init.SPk_id \in spks \/ spks = {} THEN init.SPk_id
                 ELSE CHOOSE id \in spks : TRUE)

\* The SPk the receiver loads: the one whose id the init message holds.
LoadSPk(self, spks, init) == X3DH_get_SPk(self, spks, init.SPk_id)

\* Mutant of OPksAfter: the OPk ids of local storage are left as they were.
OPksAfterUntouched(init, OPk, opks) == opks

\* The OPk ids of local storage once the keys are loaded: X3DH_get_OPk is
\* called only when the init message declares an OPk.
OPksAfter(init, OPk, opks) == IF init.OPk_flag THEN OPk.opks ELSE opks

\* Mutant of DH2posIndexes: DH2 goes to the end of the buffer, after DH3.
DH2posAtEnd(before, after, DH_out) == {cend(after)}

\* The indexes the remembered iterator DH2pos may designate when DH2 is
\* inserted.  It was taken as cend() before DH3 was inserted at the end: when
\* that insertion did not reallocate (memory for four DH outputs was reserved)
\* it still points where DH3 now starts; after a reallocation it dangles and
\* any index may result.
DH2posIndexes(before, after, DH_out) ==
    IF Reallocates(before, DH_out) THEN 1..cend(after) ELSE {cend(before)}

\* Mutant of ReceiverHKDFInputs: DH1 is computed with the receiver's Ik where
\* its SPk belongs.
ReceiverHKDFInputsIkForDH1(self, init, SPk, OPk) ==
    LET v0 == reserve(vector(EdKeyLen, 255), EdKeyLen + DHLen * 4)
        v1 == insert(v0, cend(v0),
                     Bytes(DH(IkSecret[self], EdToX(init.peerIk)), DHLen))
        v2 == insert(v1, cend(v1), Bytes(DH(SPk, init.Ek), DHLen))
        v3 == insert(v2, cend(v1), Bytes(DH(IkSecret[self], init.Ek), DHLen))
    IN  {IF init.OPk_flag
         THEN insert(v3, cend(v3), Bytes(DH(OPk, init.Ek), DHLen)) ELSE v3}

\* The HKDF inputs the receiver may build: DH1, then DH3, then DH2 inserted at
\* DH2pos, then DH4 when the init message declares an OPk.
ReceiverHKDFInputs(self, init, SPk, OPk) ==
    LET v0 == reserve(vector(EdKeyLen, 255), EdKeyLen + DHLen * 4)
        DH1 == Bytes(DH(SPk, EdToX(init.peerIk)), DHLen)
        v1 == insert(v0, cend(v0), DH1)
        DH3 == Bytes(DH(SPk, init.Ek), DHLen)
        v2 == insert(v1, cend(v1), DH3)
        DH2 == Bytes(DH(IkSecret[self], init.Ek), DHLen)
        DH4 == Bytes(DH(OPk, init.Ek), DHLen)
    IN  { LET v3 == insert(v2, pos, DH2)
          IN  IF init.OPk_flag THEN insert(v3, cend(v3), DH4) ELSE v3
          : pos \in DH2posIndexes(v1, v2, DH3) }

\* The outcomes of the call on device self: "ok" with the session made,
\* "throw" when an exception leaves the function, "abort" when a build with
\* checked iterators stops at the use of DH2pos, an iterator the insertion
\* of DH3 at its own position invalidated.  opks and peers are the OPk ids
\* and the peer devices table in local storage afterwards.
X3DH_init_receiver_session(self, X3DH_initMessage, senderDeviceId, spks, opks, peers) ==
    LET init == parseMessage_X3DHinit(X3DH_initMessage)
        SPk  == LoadSPk(self, spks, init)
        OPk  == X3DH_get_OPk(self, opks, init.OPk_id)
        opksAfter == OPksAfter(init, OPk, opks)
        failed(status, o, bufs) == [status |-> status, session |-> <<>>,
                                    opks |-> o, peers |-> peers,
                                    buffers |-> bufs]
        stored == store_peerDevice(peers, senderDeviceId, init.peerIk)
        lastDH == Bytes(DH(IF init.OPk_flag THEN OPk.secret ELSE IkSecret[self],
                           init.Ek), DHLen)
    IN  IF SPk.threw THEN {failed("throw", opks, <<>>)}
        ELSE IF init.OPk_flag /\ OPk.threw THEN {failed("throw", opks, <<>>)}
        ELSE {failed("abort", opksAfter, <<>>)} \cup
             { IF stored.threw
               THEN failed("throw", opksAfter,
                           <<DerivationBuffers(in.data, lastDH)>>)
               ELSE [status |-> "ok",
                     session |-> <<[SK  |-> X3DH_HKDF(in.data, X3DH_SK_info),
                                    AD  |-> X3DH_HKDF(ADInput(init.peerIk,
                                                EdPublic(IkSecret[self]),
                                                senderDeviceId, self), X3DH_AD_info),
                                    SPk |-> XPublic(SPk.secret),
                                    peerDid |-> stored.peerDid,
                                    X3DH_initMessage |-> <<>>,
                                    hkdfInput  |-> in.data,
                                    hkdfBuffer |-> cleanBuffer(in.data)]>>,
                     opks |-> opksAfter, peers |-> stored.peers,
                     buffers |-> <<DerivationBuffers(in.data, lastDH)>>]
               : in \in ReceiverHKDFInputs(self, init, SPk.secret, OPk.secret) }

(***************************************************************************)
(* State.                                                                  *)
(***************************************************************************)
VARIABLES
    limeObj,    \* the Lime instance of SelfDevice: "alive" or "aborted"
    peerStore,  \* local storage of every device: its peer devices table
    opkStore,   \* local storage of every device: the ids of the OPks it holds
    cache,      \* m_DR_sessions_cache of the instance: device id -> session
    lastCall,   \* <<>> or the last call of X3DH_init_sender_session: its
                \* bundles, the state it started from and how it ended
    received,   \* for every peer, <<>> or the last call of
                \* X3DH_init_receiver_session on it: the init message and the outcome
    spkStore,   \* local storage of every device: the ids of the SPks it holds
    sessionStore, \* local storage of the instance: for every peer, <<>> or
                \* the session saved for it
    localUser,  \* whether local storage holds the user of the instance
    ongoing,    \* m_ongoing_encryption: <<>> or <<userData>>
    queue,      \* m_encryption_queue
    posted,     \* the requests posted to the X3DH server, not yet answered
    issued,     \* the number of encrypt calls the application made
    answered,   \* the number of posted requests that came to an end
    log,        \* the events of the instance, in order
    body,       \* the body of an X3DH server message handed to the parsers
    parseOut    \* <<>> or the last call of a parser on body: what its
                \* output parameters held on entry and at return

x3dhVars == <<limeObj, peerStore, opkStore, cache, lastCall, received, spkStore,
              sessionStore>>

clientVars == <<localUser, ongoing, queue, posted, issued, answered, log>>

parserVars == <<body, parseOut>>

vars == <<x3dhVars, clientVars, parserVars>>

EmptyCache == [x \in {} |-> <<>>]

\* A Lime instance just loaded for a user of local storage: no session cached,
\* no peer known, nothing ongoing; every device holds its OPks.
Init ==
    /\ limeObj = "alive"
    /\ peerStore = [d \in Devices |-> <<>>]
    /\ opkStore = [d \in Devices |-> OPkIds]
    /\ cache = EmptyCache
    /\ lastCall = <<>>
    /\ received = [d \in Peers |-> <<>>]
    /\ spkStore = [d \in Devices |-> SPkIds]
    /\ sessionStore = [d \in Peers |-> <<>>]
    /\ localUser = TRUE
    /\ ongoing = <<>>
    /\ queue = <<>>
    /\ posted = <<>>
    /\ issued = 0
    /\ answered = 0
    /\ log = <<>>
    /\ body = <<>>
    /\ parseOut = <<>>

(***************************************************************************)
(* SpecX3DH: the engine called directly.                                   *)
(***************************************************************************)
\* The bundles a response may carry: of each peer one without OPk, one with
\* an OPk and one whose signature was altered, and one that names B but
\* holds the keys of another identity.
X3DHBundles ==
    {PeerBundle(d, d, 1, opk, 0) : d \in Peers, opk \in {0, 1}}
        \cup {PeerBundle(d, d, 1, 1, 1) : d \in Peers}
        \cup {PeerBundle("B", "C", 2, 0, 0)}

BundleLists == UNION {[1..n -> X3DHBundles] : n \in 0..MaxBundles}

\* Mutant of StoreAfterSender: the sessions of the cache are written through
\* to local storage.
StoreAfterSenderWriteThrough(store, newCache) ==
    [d \in DOMAIN store |->
        IF d \in DOMAIN newCache THEN <<newCache[d]>> ELSE store[d]]

\* The sessions of local storage when X3DH_init_sender_session is left with
\* the cache newCache: the sessions made are put in the cache, not in local
\* storage yet.
StoreAfterSender(store, newCache) == store

\* The instance calls X3DH_init_sender_session on a list of bundles.
SenderInit(bundles, ek0) ==
    /\ limeObj = "alive"
    /\ lastCall = <<>>
    /\ LET st == X3DH_init_sender_session(SelfDevice, peerStore[SelfDevice],
                                          cache, bundles, ek0)
       IN  /\ peerStore' = [peerStore EXCEPT ![SelfDevice] = st.peers]
           /\ cache' = st.cache
           /\ sessionStore' = StoreAfterSender(sessionStore, st.cache)
           /\ lastCall' = <<[bundles |-> bundles, ek0 |-> ek0,
                             prePeers |-> peerStore[SelfDevice],
                             preCache |-> cache,
                             preStore |-> sessionStore,
                             at |-> Len(log),
                             threw |-> st.threw, built |-> st.built,
                             buffers |-> st.buffers]>>
    /\ UNCHANGED <<limeObj, opkStore, received, spkStore, clientVars, parserVars>>

\* Peer d runs X3DH_init_receiver_session on the init message of the session
\* the instance holds for it, with the instance's device id as the sender.
PeerReceives(d) ==
    /\ d \in DOMAIN cache
    /\ cache[d].X3DH_initMessage # <<>>
    /\ \A i \in DOMAIN received[d] : received[d][i].status # "abort"
    /\ \E out \in X3DH_init_receiver_session(d, cache[d].X3DH_initMessage,
                        SelfDevice, spkStore[d], opkStore[d], peerStore[d]) :
          /\ received' = [received EXCEPT ![d] =
                             <<[init |-> cache[d].X3DH_initMessage,
                                status |-> out.status,
                                session |-> out.session]>>]
          /\ opkStore' = [opkStore EXCEPT ![d] = out.opks]
          /\ peerStore' = [peerStore EXCEPT ![d] = out.peers]
    /\ UNCHANGED <<limeObj, cache, lastCall, spkStore, sessionStore, clientVars,
                   parserVars>>

\* The init message peer d sends the instance, built from the instance's
\* bundle with OPk opk.
PeerInitMessage(d, opk) ==
    SenderSession(d, PeerBundle(SelfDevice, SelfDevice, 1, opk, 0),
                  EkOf(17, 1), 1).X3DH_initMessage

\* The instance decrypts a first message of peer d that carries an init
\* message: it runs X3DH_init_receiver_session and caches the session, which
\* the decryption saves in local storage.
SelfReceives(d, opk) ==
    /\ limeObj = "alive"
    /\ lastCall = <<>>
    /\ d \notin DOMAIN cache
    /\ \E out \in X3DH_init_receiver_session(SelfDevice, PeerInitMessage(d, opk),
                        d, spkStore[SelfDevice], opkStore[SelfDevice],
                        peerStore[SelfDevice]) :
          /\ limeObj' = IF out.status = "abort" THEN "aborted" ELSE limeObj
          /\ cache' = IF out.status = "ok"
                      THEN (d :> out.session[1]) @@ cache ELSE cache
          /\ sessionStore' = IF out.status = "ok"
                             THEN [sessionStore EXCEPT ![d] = out.session]
                             ELSE sessionStore
          /\ opkStore' = [opkStore EXCEPT ![SelfDevice] = out.opks]
          /\ peerStore' = [peerStore EXCEPT ![SelfDevice] = out.peers]
    /\ UNCHANGED <<lastCall, received, spkStore, clientVars, parserVars>>

NextX3DH ==
    \/ \E bundles \in BundleLists, ek0 \in EkSecrets : SenderInit(bundles, ek0)
    \/ \E d \in Peers : PeerReceives(d)
    \/ \E d \in Peers, opk \in {0, 1} : SelfReceives(d, opk)

SpecX3DH == Init /\ [][NextX3DH]_vars

(***************************************************************************)
(* The directory client: encrypt, cleanUserData and process_response.      *)
(* They work on a record st of what they read and write:                   *)
(*   ongoing  m_ongoing_encryption, <<>> or <<userData>>                   *)
(*   queue    m_encryption_queue                                           *)
(*   posted   the requests posted to the X3DH server and not yet answered  *)
(*   cache    m_DR_sessions_cache          peers  the peer devices table   *)
(*   user     whether local storage holds the user of the instance         *)
(*   log      what happened, in order                                      *)
(* A userData of an encryption is [id, recipients]: the number of the      *)
(* encrypt call that made it and the recipient devices.  A userData of     *)
(* another operation is [id, op, network_state_machine]: the message type  *)
(* of its first request and the state of the registration machine.         *)
(***************************************************************************)
\* userData->plainMessage != nullptr: only an encryption sets it.
IsEncryption(userData) == "recipients" \in DOMAIN userData

\* userData->recipients, a null pointer when the userData is not that of an
\* encryption.
Recipients(userData) == IF IsEncryption(userData) THEN userData.recipients ELSE {}

\* userData->network_state_machine: done unless a registration set it.
network_state(userData) ==
    IF IsEncryption(userData) THEN "done" ELSE userData.network_state_machine

\* The devices of a list of bundles.
DevicesOf(bundles) == {bundles[n].deviceId : n \in 1..Len(bundles)}

Event(ev, id, ok, devs) == [ev |-> ev, id |-> id, ok |-> ok, devs |-> devs]

Logged(st, ev, id, ok, devs) == [st EXCEPT !.log = Append(@, Event(ev, id, ok, devs))]

\* postToX3DHServer with a getPeerBundle message for the missing devices.
postToX3DHServer(st, userData, devices) ==
    [Logged(st, "post", userData.id, TRUE, devices) EXCEPT
        !.posted = Append(@, [userData |-> userData, devices |-> devices])]

\* Lime<Curve>::encrypt: with a session for every recipient the message is
\* encrypted and the callback called, and the queue is served if nothing is
\* ongoing; otherwise the request becomes the ongoing one and the missing
\* bundles are asked for, or, when another request is ongoing, it is queued.
RECURSIVE encrypt(_, _)
encrypt(st, userData) ==
    LET missing == Recipients(userData) \ DOMAIN st.cache
        called == Logged(st, "encrypt", userData.id, TRUE, missing)
    IN  IF missing # {}
        THEN IF called.ongoing = <<>>
             THEN postToX3DHServer([called EXCEPT !.ongoing = <<userData>>],
                                   userData, missing)
             ELSE [Logged(called, "enqueue", userData.id, TRUE, missing)
                      EXCEPT !.queue = Append(@, userData)]
        ELSE LET done == Logged(called, "callback", userData.id, TRUE,
                                Recipients(userData))
             IN  IF done.ongoing = <<>> /\ done.queue # <<>>
                 THEN encrypt([Logged(done, "pop", Head(done.queue).id, TRUE, {})
                                  EXCEPT !.queue = Tail(@)],
                              Head(done.queue))
                 ELSE done

\* Mutant of cleanUserData: the request queued last is the one taken.
cleanUserDataLast(st, userData) ==
    LET released == [Logged(st, "release", userData.id, TRUE, {})
                        EXCEPT !.ongoing = <<>>]
        n == Len(released.queue)
    IN  IF released.queue # <<>>
        THEN encrypt([Logged(released, "pop", released.queue[n].id, TRUE, {})
                         EXCEPT !.queue = SubSeq(@, 1, n - 1)],
                     released.queue[n])
        ELSE released

\* Lime<Curve>::cleanUserData.  For the userData of an encryption the ongoing
\* slot is released and the first queued request, if any, is processed; any
\* other userData is deleted.
cleanUserData(st, userData) ==
    LET released == [Logged(st, "release", userData.id, TRUE, {})
                        EXCEPT !.ongoing = <<>>]
    IN  IF ~IsEncryption(userData)
        THEN Logged(st, "delete", userData.id, TRUE, {})
        ELSE IF released.queue # <<>>
        THEN encrypt([Logged(released, "pop", Head(released.queue).id, TRUE, {})
                         EXCEPT !.queue = Tail(@)],
                     Head(released.queue))
        ELSE released

\* callback(lime::callbackReturn::fail, ...)
callbackFail(st, userData) == Logged(st, "callback", userData.id, FALSE, {})

\* Mutant of PeerBundleBranch: the catch clause does not return.
PeerBundleBranchCatchFallsThrough(st, userData, bundles, ek0) ==
    LET x3dh == X3DH_init_sender_session(SelfDevice, st.peers, st.cache, bundles, ek0)
        built == [Logged(st, "built", userData.id, ~x3dh.threw,
                         {x3dh.built[i] : i \in 1..Len(x3dh.built)})
                     EXCEPT !.peers = x3dh.peers, !.cache = x3dh.cache]
        caught == IF x3dh.threw
                  THEN cleanUserData(callbackFail(built, userData), userData)
                  ELSE built
    IN  cleanUserData(encrypt(caught, userData), userData)

\* Mutant of PeerBundleBranch: the userData is cleaned before encrypt is
\* called again.
PeerBundleBranchReleaseFirst(st, userData, bundles, ek0) ==
    LET x3dh == X3DH_init_sender_session(SelfDevice, st.peers, st.cache, bundles, ek0)
        built == [Logged(st, "built", userData.id, ~x3dh.threw,
                         {x3dh.built[i] : i \in 1..Len(x3dh.built)})
                     EXCEPT !.peers = x3dh.peers, !.cache = x3dh.cache]
    IN  IF x3dh.threw
        THEN cleanUserData(callbackFail(built, userData), userData)
        ELSE encrypt(cleanUserData(built, userData), userData)

\* Mutant of PeerBundleBranch: the exception is swallowed and the encryption
\* called again.
PeerBundleBranchIgnoringError(st, userData, bundles, ek0) ==
    LET x3dh == X3DH_init_sender_session(SelfDevice, st.peers, st.cache, bundles, ek0)
        built == [Logged(st, "built", userData.id, ~x3dh.threw,
                         {x3dh.built[i] : i \in 1..Len(x3dh.built)})
                     EXCEPT !.peers = x3dh.peers, !.cache = x3dh.cache]
    IN  cleanUserData(encrypt(built, userData), userData)

\* The branch of process_response for a peerBundle message whose bundles
\* were parsed: the sessions are made, then the encryption is called again
\* and the userData cleaned; an exception of X3DH_init_sender_session ends
\* the request with the fail callback.
PeerBundleBranch(st, userData, bundles, ek0) ==
    LET x3dh == X3DH_init_sender_session(SelfDevice, st.peers, st.cache, bundles, ek0)
        built == [Logged(st, "built", userData.id, ~x3dh.threw,
                         {x3dh.built[i] : i \in 1..Len(x3dh.built)})
                     EXCEPT !.peers = x3dh.peers, !.cache = x3dh.cache]
    IN  IF x3dh.threw
        THEN cleanUserData(callbackFail(built, userData), userData)
        ELSE cleanUserData(encrypt(built, userData), userData)

\* The message type of the request a userData waits the answer of.
RequestType(userData) ==
    IF IsEncryption(userData) THEN "getPeerBundle"
    ELSE IF userData.op # "registerUser" THEN userData.op
    ELSE IF userData.network_state_machine = "sendSPk" THEN "registerUser"
    ELSE IF userData.network_state_machine = "sendOPk" THEN "postSPk"
    ELSE "postOPks"

\* The end of process_response, for a message that is neither an error nor
\* a peerBundle: the registration machine posts the SPk after the
\* registerUser message and the OPks after the postSPk message; in any other
\* case the success callback is called and the userData deleted.
RegistrationMachine(st, userData, message_type) ==
    IF network_state(userData) = "sendSPk" /\ message_type = "registerUser"
    THEN postToX3DHServer(st, [userData EXCEPT !.network_state_machine = "sendOPk"], {})
    ELSE IF network_state(userData) = "sendOPk" /\ message_type = "postSPk"
    THEN postToX3DHServer(st, [userData EXCEPT !.network_state_machine = "done"], {})
    ELSE Logged(Logged(st, "callback", userData.id, TRUE, {}),
                "delete", userData.id, TRUE, {})

\* Mutant of process_response: every error message deletes the local user.
process_responseDeletingOnError(st, userData, answer, ek0) ==
    IF answer.header = "failed"
    THEN cleanUserData(callbackFail(st, userData), userData)
    ELSE IF answer.header = "silent"
    THEN cleanUserData(st, userData)
    ELSE IF answer.type = "error"
    THEN cleanUserData(callbackFail([st EXCEPT !.user = FALSE], userData), userData)
    ELSE IF answer.type = "peerBundle"
    THEN IF ~answer.parsed
         THEN cleanUserData(callbackFail(st, userData), userData)
         ELSE PeerBundleBranch(Logged(st, "parsed", userData.id, TRUE,
                                      DevicesOf(answer.bundles)),
                               userData, answer.bundles, ek0)
    ELSE RegistrationMachine(st, userData, answer.type)

\* Lime<Curve>::process_response on an HTTP 200 response, the instance being
\* alive.  The answer says how parseMessage_getType ended: header is
\* "ok", "failed" (it called the fail callback and returned false) or
\* "silent" (it returned false without a callback: unknown message type,
\* error message without a code, unknown error code); type is the message
\* type, error_code the code of an error message, parsed whether
\* parseMessage_getPeerBundles accepted the body of a peerBundle message and
\* bundles what it returned.
process_response(st, userData, answer, ek0) ==
    IF answer.header = "failed"
    THEN cleanUserData(callbackFail(st, userData), userData)
    ELSE IF answer.header = "silent"
    THEN cleanUserData(st, userData)
    ELSE IF answer.type = "error"
    THEN cleanUserData(
             callbackFail([st EXCEPT !.user = IF answer.error_code = "user_already_in"
                                              THEN FALSE ELSE @], userData),
             userData)
    ELSE IF answer.type = "peerBundle"
    THEN IF ~answer.parsed
         THEN cleanUserData(callbackFail(st, userData), userData)
         ELSE PeerBundleBranch(Logged(st, "parsed", userData.id, TRUE,
                                      DevicesOf(answer.bundles)),
                               userData, answer.bundles, ek0)
    ELSE RegistrationMachine(st, userData, answer.type)

(***************************************************************************)
(* Spec: one Lime instance, the application calling encrypt and the X3DH   *)
(* server answering the posted requests.                                   *)
(***************************************************************************)
\* What encrypt, cleanUserData and process_response read and write.
Current ==
    [ongoing |-> ongoing, queue |-> queue, posted |-> posted, cache |-> cache,
     peers |-> peerStore[SelfDevice], user |-> localUser, log |-> log]

Commit(st) ==
    /\ ongoing' = st.ongoing
    /\ queue' = st.queue
    /\ posted' = st.posted
    /\ cache' = st.cache
    /\ peerStore' = [peerStore EXCEPT ![SelfDevice] = st.peers]
    /\ localUser' = st.user
    /\ log' = st.log

\* The recipient lists of the application's calls: B alone, or B and C.
RecipientLists == {{"B"}, {"B", "C"}}

\* The application calls encrypt.
AppEncrypt(recipients) ==
    /\ limeObj = "alive"
    /\ issued < MaxEncrypts
    /\ issued' = issued + 1
    /\ Commit(encrypt(Current, [id |-> issued + 1, recipients |-> recipients]))
    /\ UNCHANGED <<limeObj, opkStore, lastCall, received, spkStore, sessionStore,
                   answered, parserVars>>

\* The bundles the server may return, at most one for a device: of B one
\* with an OPk, one with an altered signature and one of another identity, of
\* C one without an OPk.
ServerBundles ==
    {PeerBundle("B", "B", 1, 1, 0), PeerBundle("B", "B", 1, 1, 1),
     PeerBundle("B", "C", 2, 0, 0), PeerBundle("C", "C", 1, 0, 0)}

ServerBundleLists ==
    {bl \in UNION {[1..n -> ServerBundles] : n \in 0..MaxBundles} :
        \A i, j \in 1..Len(bl) : i # j => bl[i].deviceId # bl[j].deviceId}

\* The secret createKeyPair draws in the handler of the n-th answer: the
\* draws of one behaviour alternate over EkSecrets.
NthEkSecret(n) == CHOOSE ek \in EkSecrets : ek % 2 = (n + 1) % 2

Answer(header, type, error_code, parsed, bundles) ==
    [header |-> header, type |-> type, error_code |-> error_code,
     parsed |-> parsed, bundles |-> bundles]

\* posted without its i-th request.
Without(seq, i) == SubSeq(seq, 1, i - 1) \o SubSeq(seq, i + 1, Len(seq))

\* The posted requests the server may answer: all of them, until max
\* answers were given.
Pending(max) == IF answered < max THEN 1..Len(posted) ELSE {}

\* The message types of a response other than error and peerBundle.
OtherTypes == {"registerUser", "deleteUser", "postSPk", "postOPks", "getPeerBundle"}

\* process_response runs into undefined behaviour on this answer: it deletes
\* the userData of an encryption, which m_ongoing_encryption owns, or it
\* calls encrypt with the null recipients and messages of a userData that is
\* not that of an encryption.
Undefined(userData, answer, ek0) ==
    /\ answer.header = "ok"
    /\ \/ IsEncryption(userData) /\ answer.type \in OtherTypes
       \/ /\ ~IsEncryption(userData)
          /\ answer.type = "peerBundle"
          /\ answer.parsed
          /\ ~X3DH_init_sender_session(SelfDevice, peerStore[SelfDevice], cache,
                                       answer.bundles, ek0).threw

\* belle-sip hands the HTTP 200 response to posted request i to
\* process_response.
Respond(i, answer, ek0) ==
    /\ limeObj = "alive"
    /\ i \in 1..Len(posted)
    /\ answered' = answered + 1
    /\ limeObj' \in IF Undefined(posted[i].userData, answer, ek0)
                    THEN {"alive", "aborted"} ELSE {"alive"}
    /\ Commit(process_response([Current EXCEPT !.posted = Without(@, i)],
                                posted[i].userData, answer, ek0))
    /\ UNCHANGED <<opkStore, lastCall, received, spkStore, sessionStore, issued,
                   parserVars>>

\* ... a peerBundle message with a well-formed list of bundles.
ResponsePeerBundle(i, bundles, ek0) ==
    Respond(i, Answer("ok", "peerBundle", "", TRUE, bundles), ek0)

\* ... a peerBundle message parseMessage_getPeerBundles rejects.
ResponseInvalidPeerBundle(i) ==
    Respond(i, Answer("ok", "peerBundle", "", FALSE, <<>>), 0)

\* ... an error message with a known error code.
ResponseError(i, error_code) ==
    Respond(i, Answer("ok", "error", error_code, FALSE, <<>>), 0)

\* ... a body parseMessage_getType rejects, with the fail callback (short
\* body, other protocol version, other curve) or without.
ResponseRejected(i, header) ==
    Respond(i, Answer(header, "", "", FALSE, <<>>), 0)

\* ... a message of another type (registerUser, deleteUser, postSPk, postOPks,
\* getPeerBundle).  The userData of an encryption is deleted while
\* m_ongoing_encryption still owns it: the instance goes on with a dangling
\* slot, or the heap corruption stops the process.
ResponseOtherType(i, message_type) ==
    Respond(i, Answer("ok", message_type, "", FALSE, <<>>), 0)

\* The response to posted request i is not HTTP 200, or the request ends in
\* an I/O error: process_response and process_io_error do nothing.
ResponseNot200(i) ==
    /\ limeObj = "alive"
    /\ i \in 1..Len(posted)
    /\ answered' = answered + 1
    /\ posted' = Without(posted, i)
    /\ UNCHANGED <<x3dhVars, localUser, ongoing, queue, issued, log, parserVars>>

process_io_error(i) ==
    /\ limeObj = "alive"
    /\ i \in 1..Len(posted)
    /\ answered' = answered + 1
    /\ posted' = Without(posted, i)
    /\ UNCHANGED <<x3dhVars, localUser, ongoing, queue, issued, log, parserVars>>

Next ==
    \/ \E recipients \in RecipientLists : AppEncrypt(recipients)
    \/ \E i \in Pending(MaxAnswers), bundles \in ServerBundleLists :
          ResponsePeerBundle(i, bundles, NthEkSecret(answered))
    \/ \E i \in Pending(MaxAnswers) : ResponseInvalidPeerBundle(i)
    \/ \E i \in Pending(MaxAnswers), code \in {"user_already_in", "user_not_found"} :
          ResponseError(i, code)
    \/ \E i \in Pending(MaxAnswers), header \in {"failed", "silent"} :
          ResponseRejected(i, header)
    \/ \E i \in Pending(MaxAnswers), message_type \in OtherTypes :
          ResponseOtherType(i, message_type)
    \/ \E i \in Pending(MaxAnswers) : ResponseNot200(i)
    \/ \E i \in Pending(MaxAnswers) : process_io_error(i)

Spec == Init /\ [][Next]_vars

(***************************************************************************)
(* Claims on the X3DH engine (checked under SpecX3DH).                     *)
(***************************************************************************)
\* The last call of the sender, when there is one.
Called == lastCall # <<>>
Call == lastCall[1]

\* Bundle b is the bundle device d published: its keys and a genuine signature.
ValidBundleOf(d, b) == b = PeerBundle(d, d, b.SPk_id, b.OPk_id, 0)

\* The session the instance holds for d is the one bundle i of the call made.
BuiltFrom(d, i) ==
    /\ i <= Len(Call.built)
    /\ Call.bundles[i].deviceId = d
    /\ d \in DOMAIN cache
    /\ cache[d].X3DH_initMessage # <<>>
    /\ cache[d].X3DH_initMessage[3] = XPublic(EkOf(Call.ek0, i))

\* Peer d derived a session from the init message of the session the instance
\* holds for it, which a valid bundle of d with (not) an OPk made.
Handshake(d, withOPk) ==
    /\ Called
    /\ received[d] # <<>>
    /\ received[d][1].status = "ok"
    /\ \E i \in 1..Len(Call.bundles) :
          /\ BuiltFrom(d, i)
          /\ ValidBundleOf(d, Call.bundles[i])
          /\ Call.bundles[i].haveOPk = withOPk
          /\ received[d][1].init = cache[d].X3DH_initMessage

\* C1: for every valid bundle of a peer, with or without an OPk, the (SK, AD)
\* the sender derived from it equals the (SK, AD) the peer derived from the
\* init message the sender built for it, the peer being called with the
\* sender's device id.
C1_SenderReceiverAgree ==
    \A d \in Peers : \A withOPk \in BOOLEAN :
        Handshake(d, withOPk) =>
            /\ received[d][1].session[1].SK = cache[d].SK
            /\ received[d][1].session[1].AD = cache[d].AD

\* Witness of C1: both peers completed a handshake, one from a bundle with an
\* OPk and one from a bundle without.
C1_Witness ==
    \E d, e \in Peers : Handshake(d, TRUE) /\ Handshake(e, FALSE)

\* F || DH1 || DH2 || DH3 [|| DH4] as receiver self computes them from the
\* parsed init message: DH1 = DH(SPk, peer Ik), DH2 = DH(self Ik, Ek),
\* DH3 = DH(SPk, Ek), DH4 = DH(OPk, Ek).
ReceiverOrder(self, init) ==
    [i \in 1..EdKeyLen |-> 255]
        \o Bytes(DH(SPkSecret[self][init.SPk_id], EdToX(init.peerIk)), DHLen)
        \o Bytes(DH(IkSecret[self], init.Ek), DHLen)
        \o Bytes(DH(SPkSecret[self][init.SPk_id], init.Ek), DHLen)
        \o (IF init.OPk_flag
            THEN Bytes(DH(OPkSecret[self][init.OPk_id], init.Ek), DHLen)
            ELSE <<>>)

\* Peer d completed X3DH_init_receiver_session on an init message that
\* declares (not) an OPk.
ReceiverDone(d, withOPk) ==
    /\ received[d] # <<>>
    /\ received[d][1].status = "ok"
    /\ parseMessage_X3DHinit(received[d][1].init).OPk_flag = withOPk

\* C2: the HKDF input the receiver hands to X3DH_HKDF is
\* F || DH1 || DH2 || DH3 [|| DH4] in that order, with and without an OPk,
\* although DH3 is computed and inserted before DH2.
C2_ReceiverHKDFOrder ==
    \A d \in Peers : \A withOPk \in BOOLEAN :
        ReceiverDone(d, withOPk) =>
            received[d][1].session[1].hkdfInput
                = ReceiverOrder(d, parseMessage_X3DHinit(received[d][1].init))

\* Witness of C2: one receiver finished on an init message with an OPk and
\* one on an init message without, and DH2 differs from DH3 in both.
C2_Witness ==
    \E d, e \in Peers :
        /\ ReceiverDone(d, TRUE) /\ ReceiverDone(e, FALSE)
        /\ \A x \in {d, e} :
              LET init == parseMessage_X3DHinit(received[x][1].init)
              IN  DH(IkSecret[x], init.Ek) # DH(SPkSecret[x][init.SPk_id], init.Ek)

\* The length of an HKDF input with (not) a DH4.
HKDFInputLen(withOPk) == EdKeyLen + DHLen * (IF withOPk THEN 4 ELSE 3)

\* C3: DH4 is in the HKDF input if and only if the bundle carries an OPk
\* (sender) or the init message declares one (receiver): the input is
\* |F| + 3*|DH| long without an OPk and |F| + 4*|DH| with one, and then ends
\* with DH4.
C3_DH4IffOPk ==
    /\ Called =>
          \A i \in 1..Len(Call.bundles) : \A d \in Peers :
              BuiltFrom(d, i) =>
                  LET b == Call.bundles[i]
                      in == cache[d].hkdfInput
                  IN  /\ Len(in) = HKDFInputLen(b.haveOPk)
                      /\ b.haveOPk =>
                            SubSeq(in, Len(in) - DHLen + 1, Len(in))
                                = Bytes(DH(EkOf(Call.ek0, i), b.OPk), DHLen)
    /\ \A d \in Peers : \A withOPk \in BOOLEAN :
          ReceiverDone(d, withOPk) =>
              LET init == parseMessage_X3DHinit(received[d][1].init)
                  in == received[d][1].session[1].hkdfInput
              IN  /\ Len(in) = HKDFInputLen(withOPk)
                  /\ withOPk =>
                        SubSeq(in, Len(in) - DHLen + 1, Len(in))
                            = Bytes(DH(OPkSecret[d][init.OPk_id], init.Ek), DHLen)

\* Witness of C3: a handshake without an OPk and one with an OPk both
\* succeeded, with HKDF inputs of the two lengths on both sides.
C3_Witness ==
    \E d, e \in Peers :
        /\ Handshake(d, TRUE) /\ Handshake(e, FALSE)
        /\ Len(cache[d].hkdfInput) = HKDFInputLen(TRUE)
        /\ Len(received[d][1].session[1].hkdfInput) = HKDFInputLen(TRUE)
        /\ Len(cache[e].hkdfInput) = HKDFInputLen(FALSE)
        /\ Len(received[e][1].session[1].hkdfInput) = HKDFInputLen(FALSE)
        /\ received[d][1].session[1].SK = cache[d].SK
        /\ received[e][1].session[1].SK = cache[e].SK

\* The outcome of the call on the first n bundles of the last call's list.
AfterBundles(n) ==
    X3DH_init_sender_session(SelfDevice, Call.prePeers, Call.preCache,
                             SubSeq(Call.bundles, 1, n), Call.ek0)

\* session is the session the call made for its bundle i.
FreshSession(session, i) ==
    /\ session.X3DH_initMessage # <<>>
    /\ session.X3DH_initMessage[3] = XPublic(EkOf(Call.ek0, i))
    /\ session.SPk = Call.bundles[i].SPk

\* The call made a session for its bundle i (no exception before or at i).
Processed(i) == i \in 1..Len(Call.built)

\* C4: when the sender builds a session for a device that already has one in
\* the cache, the cache entry becomes the new session if the bundle carried
\* an OPk and stays the old session if it carried none; without an entry the
\* new session is installed in both cases.
C4_InstallPolicy ==
    Called =>
        /\ cache = AfterBundles(Len(Call.built)).cache
        /\ \A i \in 1..Len(Call.bundles) :
              Processed(i) =>
                  LET b == Call.bundles[i]
                      before == AfterBundles(i - 1).cache
                      after == AfterBundles(i).cache
                  IN  /\ b.deviceId \in DOMAIN after
                      /\ IF b.deviceId \in DOMAIN before /\ ~b.haveOPk
                         THEN after[b.deviceId] = before[b.deviceId]
                         ELSE FreshSession(after[b.deviceId], i)
                      /\ \A d \in DOMAIN before \ {b.deviceId} :
                            d \in DOMAIN after /\ after[d] = before[d]

\* Witness of C4: one call replaced the cached session of a device whose
\* bundle had an OPk, kept the cached session of a device whose bundle had
\* none, and both devices had a session before the call.
C4_Witness ==
    /\ Called
    /\ Len(Call.bundles) = Len(Call.built)
    /\ \E i, j \in 1..Len(Call.bundles) :
          LET d == Call.bundles[i].deviceId
              e == Call.bundles[j].deviceId
          IN  /\ d # e
              /\ {d, e} \subseteq DOMAIN Call.preCache
              /\ Call.bundles[i].haveOPk /\ ~Call.bundles[j].haveOPk
              /\ FreshSession(cache[d], i) /\ cache[d] # Call.preCache[d]
              /\ cache[e] = Call.preCache[e]

\* The signature of bundle i of the call does not verify, and the call
\* reached that bundle.
SignatureFails(i) ==
    /\ i \in 1..Len(Call.bundles)
    /\ LET b == Call.bundles[i] IN ~Verify(b.Ik, b.SPk, b.SPk_sig)
    /\ Len(Call.built) >= i - 1

HeldFor(peers, sessions, d) ==
    <<IF PeerRow(peers, d) = 0 THEN <<>> ELSE <<peers[PeerRow(peers, d)]>>,
      IF d \in DOMAIN sessions THEN <<sessions[d]>> ELSE <<>>>>

\* C9: a bundle whose SPk signature does not verify leaves no trace for its
\* device: no peer row is stored, no session made, no cache entry added or
\* replaced: what the instance holds for the device is what it held when the
\* loop reached the bundle.
C9_BadSignatureNoSideEffect ==
    Called =>
        \A i \in 1..Len(Call.bundles) :
            SignatureFails(i) =>
                LET d == Call.bundles[i].deviceId
                    before == AfterBundles(i - 1)
                IN  /\ HeldFor(peerStore[SelfDevice], cache, d)
                          = HeldFor(before.peers, before.cache, d)
                    /\ (\A j \in 1..(i - 1) : Call.bundles[j].deviceId # d)
                          => HeldFor(peerStore[SelfDevice], cache, d)
                                = HeldFor(Call.prePeers, Call.preCache, d)

\* Witness of C9: the bundle with the bad signature is for a device the
\* instance knew nothing of, after a valid bundle of another device, and the
\* instance still knows nothing of it.
C9_Witness ==
    /\ Called
    /\ \E i \in 2..Len(Call.bundles) :
          /\ SignatureFails(i)
          /\ Len(Call.built) = i - 1
          /\ \A j \in 1..(i - 1) : Call.bundles[j].deviceId # Call.bundles[i].deviceId
          /\ HeldFor(peerStore[SelfDevice], cache, Call.bundles[i].deviceId)
                = <<<<>>, <<>>>>

(***************************************************************************)
(* Claims on the encryption queue and the peerBundle handler (checked      *)
(* under Spec).                                                            *)
(***************************************************************************)
\* The number of events ev among the first k - 1 events of the log.
CountBefore(ev, k) == Cardinality({j \in 1..(k - 1) : log[j].ev = ev})

\* Whether the ongoing slot is held when event k of the log happens: a post
\* takes it, a release frees it.
HeldAt(k) == CountBefore("post", k) - CountBefore("release", k)

\* The ids of the events ev of the log, in order.
IdsOf(ev) ==
    LET sel == SelectSeq(log, LAMBDA e : e.ev = ev)
    IN  [j \in 1..Len(sel) |-> sel[j].id]

\* The ids of the requests waiting on the queue when event k of the log
\* happens, first the one put on it first.
WaitingAt(k) ==
    LET sel == SelectSeq(SubSeq(log, 1, k - 1), LAMBDA e : e.ev = "enqueue")
    IN  [j \in 1..(Len(sel) - CountBefore("pop", k)) |->
            sel[j + CountBefore("pop", k)].id]

\* The devices whose bundles the request of event k of the log asked the
\* server for: those of its last post.
AskedAt(k) ==
    LET p == CHOOSE p \in 1..(k - 1) :
                 /\ log[p].ev = "post" /\ log[p].id = log[k].id
                 /\ \A q \in (p + 1)..(k - 1) :
                        ~(log[q].ev = "post" /\ log[q].id = log[k].id)
    IN  log[p].devs

\* C5: at most one getPeerBundle request is outstanding; it is the request of
\* the ongoing encryption; a request is posted only when the ongoing slot is
\* free, and a call of encrypt that lacks a session while the slot is held is
\* put on the encryption queue, not posted.
C5_OneFetchOutstanding ==
    /\ Len(posted) <= 1
    /\ posted # <<>> => ongoing = <<posted[1].userData>>
    /\ \A k \in DOMAIN log :
          /\ log[k].ev = "post" => HeldAt(k) = 0
          /\ log[k].ev = "enqueue" => HeldAt(k) = 1
          /\ (log[k].ev = "encrypt" /\ log[k].devs # {}) =>
                /\ k < Len(log)
                /\ log[k + 1].id = log[k].id
                /\ log[k + 1].ev = IF HeldAt(k) = 0 THEN "post" ELSE "enqueue"

\* A request is outstanding and a later one, lacking a session too, waits on
\* the queue.
C5_Witness ==
    /\ Len(posted) = 1
    /\ queue # <<>>
    /\ \E k \in DOMAIN log : log[k].ev = "enqueue" /\ log[k].devs # {}

C7_ResponseOrder ==
    \A k \in DOMAIN log :
        log[k].ev = "parsed" =>
            /\ k + 1 <= Len(log)
            /\ log[k + 1].ev = "built" /\ log[k + 1].id = log[k].id
            /\ log[k + 1].ok =>
                  LET id == log[k].id
                      waiting == IF log[k + 3].ev = "enqueue"
                                 THEN Append(WaitingAt(k), id) ELSE WaitingAt(k)
                  IN  /\ k + 4 <= Len(log)
                      /\ log[k + 1].devs = log[k].devs
                      /\ log[k].devs \subseteq DOMAIN cache
                      /\ log[k + 2] = Event("encrypt", id, TRUE,
                                            AskedAt(k) \ log[k].devs)
                      /\ log[k + 3].id = id
                      /\ log[k + 3].ev = IF log[k + 2].devs = {}
                                         THEN "callback" ELSE "enqueue"
                      /\ log[k + 4] = Event("release", id, TRUE, {})
                      /\ IF waiting = <<>>
                         THEN k + 5 <= Len(log) => log[k + 5].ev = "encrypt"
                         ELSE /\ k + 5 <= Len(log)
                              /\ log[k + 5] = Event("pop", Head(waiting), TRUE, {})

\* A response brought a bundle, the ongoing request was encrypted, the slot
\* released and a waiting request taken.
C7_Witness ==
    \E k \in DOMAIN log :
        /\ k + 4 <= Len(log)
        /\ log[k].ev = "built" /\ log[k].ok /\ log[k].devs # {}
        /\ log[k - 1].ev = "parsed"
        /\ log[k + 1].ev = "encrypt"
        /\ log[k + 2].ev = "callback" /\ log[k + 2].ok
        /\ log[k + 3].ev = "release"
        /\ log[k + 4].ev = "pop"

\* Event k of the log is a response of several bundles to a request that
\* lacked the session of several recipients, and the signature or the
\* identity of one of the bundles is refused.
BundleLevelError(k) ==
    /\ log[k].ev = "parsed"
    /\ Cardinality(log[k].devs) >= 2
    /\ Cardinality(AskedAt(k)) >= 2
    /\ ~log[k + 1].ok

X3DH_protocolVersion == 1
X3DH_headerSize == 3
\* Curve::curveId() of the instance.
CurveId == 1

\* enum class x3dh_message_type
x3dh_message_type ==
    [unset_type |-> 0, registerUser |-> 1, deleteUser |-> 2, postSPk |-> 3,
     postOPks |-> 4, getPeerBundle |-> 5, peerBundle |-> 6, error |-> 255]

\* enum class x3dh_error_code
x3dh_error_code ==
    [bad_content_type |-> 0, bad_curve |-> 1, missing_senderId |-> 2,
     bad_x3dh_protocol_version |-> 3, bad_size |-> 4, user_already_in |-> 5,
     user_not_found |-> 6, db_error |-> 7, bad_request |-> 8,
     unset_error_code |-> 255]

\* The enumerators a byte of a message may select: every one but the unset.
MessageTypeOf(byte) ==
    {t \in DOMAIN x3dh_message_type \ {"unset_type"} : x3dh_message_type[t] = byte}

ErrorCodeOf(byte) ==
    {c \in DOMAIN x3dh_error_code \ {"unset_error_code"} : x3dh_error_code[c] = byte}

\* X3DH_makeHeader
X3DH_makeHeader(message_type, curve) ==
    <<X3DH_protocolVersion, x3dh_message_type[message_type], curve>>

\* The two bytes the builders write for a size: (n>>8)&0xFF, n&0xFF.
SizeBytes(n) == <<(n \div 256) % 256, n % 256>>

\* The four bytes the builders write for a key id, most significant first.
IdBytes(id) ==
    <<(id \div 16777216) % 256, (id \div 65536) % 256, (id \div 256) % 256,
      id % 256>>

\* buildMessage_registerUser: the header and the identity key.
buildMessage_registerUser(Ik) == X3DH_makeHeader("registerUser", CurveId) \o Ik

\* buildMessage_deleteUser: the header.
buildMessage_deleteUser == X3DH_makeHeader("deleteUser", CurveId)

\* buildMessage_publishSPk: the header, SPk, its signature and its id.
buildMessage_publishSPk(SPk, Sig, SPk_id) ==
    X3DH_makeHeader("postSPk", CurveId) \o SPk \o Sig \o IdBytes(SPk_id)

\* The loop of buildMessage_publishOPks from key i on.
RECURSIVE PublishOPksLoop(_, _, _)
PublishOPksLoop(OPks, OPk_ids, i) ==
    IF i > Len(OPks) THEN <<>>
    ELSE OPks[i] \o IdBytes(OPk_ids[i]) \o PublishOPksLoop(OPks, OPk_ids, i + 1)

\* buildMessage_publishOPks: the header, the keys count and the keys.
buildMessage_publishOPks(OPks, OPk_ids) ==
    X3DH_makeHeader("postOPks", CurveId) \o SizeBytes(Len(OPks))
    \o PublishOPksLoop(OPks, OPk_ids, 1)

\* std::vector::resize to a smaller size.
resize(v, n) == SubSeq(v, 1, n)

\* The peer number buildMessage_getPeerBundles appends: the size of the list
\* it is given.
GetPeerBundlesCount(peer_device_ids) == SizeBytes(Len(peer_device_ids))

\* The loop of buildMessage_getPeerBundles over the device ids lo..hi: the
\* size of each device id and the device id.
RECURSIVE GetPeerBundlesLoop(_, _, _)
GetPeerBundlesLoop(peer_device_ids, lo, hi) ==
    IF lo > hi THEN <<>>
    ELSE IF lo = hi
    THEN SizeBytes(Len(peer_device_ids[lo])) \o peer_device_ids[lo]
    ELSE LET mid == (lo + hi) \div 2
         IN  GetPeerBundlesLoop(peer_device_ids, lo, mid)
             \o GetPeerBundlesLoop(peer_device_ids, mid + 1, hi)

\* buildMessage_getPeerBundles: the message, and peer_device_ids as the call
\* leaves it (a list longer than 0xFFFF is truncated once the count is
\* written).
buildMessage_getPeerBundles(peer_device_ids) ==
    LET resized == IF Len(peer_device_ids) > 65535
                   THEN resize(peer_device_ids, 65535)
                   ELSE peer_device_ids
    IN  [message |-> X3DH_makeHeader("getPeerBundle", CurveId)
                     \o GetPeerBundlesCount(peer_device_ids)
                     \o GetPeerBundlesLoop(resized, 1, Len(resized)),
         peer_device_ids |-> resized]

\* parseMessage_getType: what it returns, whether it called the callback
\* (always with fail), and what message_type and error_code hold at return,
\* given what they held on entry.
parseMessage_getType(msg, message_type, error_code) ==
    LET rejected(cb, type) == [ret |-> FALSE, callback |-> cb,
                               message_type |-> type, error_code |-> error_code]
    IN  IF Len(msg) < X3DH_headerSize THEN rejected(TRUE, message_type)
        ELSE IF msg[1] # X3DH_protocolVersion THEN rejected(TRUE, message_type)
        ELSE IF msg[3] # CurveId THEN rejected(TRUE, message_type)
        ELSE IF MessageTypeOf(msg[2]) = {} THEN rejected(FALSE, message_type)
        ELSE LET type == CHOOSE t \in MessageTypeOf(msg[2]) : TRUE
             IN  IF type # "error"
                 THEN [ret |-> TRUE, callback |-> FALSE,
                       message_type |-> type, error_code |-> error_code]
                 ELSE IF Len(msg) < X3DH_headerSize + 1 THEN rejected(FALSE, type)
                 ELSE IF ErrorCodeOf(msg[X3DH_headerSize + 1]) = {}
                 THEN rejected(FALSE, type)
                 ELSE [ret |-> TRUE, callback |-> FALSE, message_type |-> type,
                       error_code |-> CHOOSE c \in
                                        ErrorCodeOf(msg[X3DH_headerSize + 1]) : TRUE]

\* Big endian integers of 2 and 4 bytes, read at (0-based) index of msg.
ReadU16(msg, index) == msg[index + 1] * 256 + msg[index + 2]

ReadU32(msg, index) ==
    ((msg[index + 1] * 256 + msg[index + 2]) * 256 + msg[index + 3]) * 256
    + msg[index + 4]

\* The bytes of msg from (0-based) index on, len of them.
Slice(msg, index, len) == SubSeq(msg, index + 1, index + len)

\* Mutant of HaveOPk: only the flag byte 1 announces an OPk.
HaveOPkOnlyOne(flag) == flag = 1

\* The OPk flag byte of a bundle: haveOPk = (body[index]==0)?false:true.
HaveOPk(flag) == flag # 0

\* The bytes of a bundle after its flag: keys, signature and ids.
BundleKeysSize(haveOPk) ==
    EdKeyLen + DHLen + SigLen + 4 + (IF haveOPk THEN DHLen + 4 ELSE 0)

\* Mutant of ParseBundlesLoop: a short read returns what was parsed so far.
RECURSIVE ParseBundlesLoopKeepingPartial(_, _, _, _, _)
ParseBundlesLoopKeepingPartial(msg, peersBundleCount, i, index, peersBundle) ==
    IF i >= peersBundleCount THEN [ret |-> TRUE, peersBundle |-> peersBundle]
    ELSE IF Len(msg) < index + 2 THEN [ret |-> FALSE, peersBundle |-> peersBundle]
    ELSE LET deviceIdSize == ReadU16(msg, index)
             atId == index + 2
         IN  IF Len(msg) < atId + deviceIdSize + 1
             THEN [ret |-> FALSE, peersBundle |-> peersBundle]
             ELSE LET haveOPk == msg[atId + deviceIdSize + 1] # 0
                      atIk == atId + deviceIdSize + 1
                  IN  IF Len(msg) < atIk + BundleKeysSize(haveOPk)
                      THEN [ret |-> FALSE, peersBundle |-> peersBundle]
                      ELSE ParseBundlesLoopKeepingPartial(msg, peersBundleCount, i + 1,
                               atIk + BundleKeysSize(haveOPk),
                               Append(peersBundle,
                                      [deviceId |-> Slice(msg, atId, deviceIdSize)]))

\* The loop of parseMessage_getPeerBundles from bundle i on, index being the
\* (0-based) position in msg and peersBundle the bundles parsed so far.
RECURSIVE ParseBundlesLoop(_, _, _, _, _)
ParseBundlesLoop(msg, peersBundleCount, i, index, peersBundle) ==
    IF i >= peersBundleCount THEN [ret |-> TRUE, peersBundle |-> peersBundle]
    ELSE IF Len(msg) < index + 2 THEN [ret |-> FALSE, peersBundle |-> <<>>]
    ELSE LET deviceIdSize == ReadU16(msg, index)
             atId == index + 2
         IN  IF Len(msg) < atId + deviceIdSize + 1
             THEN [ret |-> FALSE, peersBundle |-> <<>>]
             ELSE LET haveOPk == HaveOPk(msg[atId + deviceIdSize + 1])
                      atIk == atId + deviceIdSize + 1
                      atSPk == atIk + EdKeyLen
                      atSPkId == atSPk + DHLen
                      atSig == atSPkId + 4
                      atOPk == atSig + SigLen
                  IN  IF Len(msg) < atIk + BundleKeysSize(haveOPk)
                      THEN [ret |-> FALSE, peersBundle |-> <<>>]
                      ELSE ParseBundlesLoop(msg, peersBundleCount, i + 1,
                               atIk + BundleKeysSize(haveOPk),
                               Append(peersBundle,
                                  [deviceId |-> Slice(msg, atId, deviceIdSize),
                                   haveOPk  |-> haveOPk,
                                   Ik       |-> Slice(msg, atIk, EdKeyLen),
                                   SPk      |-> Slice(msg, atSPk, DHLen),
                                   SPk_id   |-> ReadU32(msg, atSPkId),
                                   SPk_sig  |-> Slice(msg, atSig, SigLen),
                                   OPk      |-> IF haveOPk
                                                THEN Slice(msg, atOPk, DHLen)
                                                ELSE <<>>,
                                   OPk_id   |-> IF haveOPk
                                                THEN ReadU32(msg, atOPk + DHLen)
                                                ELSE 0]))

\* parseMessage_getPeerBundles: what it returns and what peersBundle holds
\* at return; what peersBundle held on entry is cleared first.
parseMessage_getPeerBundles(msg, peersBundle) ==
    IF Len(msg) < X3DH_headerSize + 2
    THEN [ret |-> FALSE, peersBundle |-> <<>>]
    ELSE ParseBundlesLoop(msg, ReadU16(msg, X3DH_headerSize), 0,
                          X3DH_headerSize + 2, <<>>)

\* The (0-based) indexes a "%s" conversion reads of the C string starting at
\* index from of msg: up to the first zero byte, that byte included; when
\* msg holds none from there on, up to the byte following msg at least.
RECURSIVE CStringReads(_, _)
CStringReads(msg, from) ==
    IF from >= Len(msg) THEN {from}
    ELSE IF msg[from + 1] = 0 THEN {from}
    ELSE {from} \cup CStringReads(msg, from + 1)

\* The (0-based) indexes of msg parseMessage_getType reads; logged says
\* whether bctbx_error formats the messages it is given.
GetTypeReads(msg, logged) ==
    IF Len(msg) < X3DH_headerSize THEN {}
    ELSE IF msg[1] # X3DH_protocolVersion THEN {0}
    ELSE IF msg[3] # CurveId THEN {0, 2}
    ELSE IF MessageTypeOf(msg[2]) = {} THEN {0, 1, 2}
    ELSE IF "error" \notin MessageTypeOf(msg[2]) THEN {0, 1, 2}
    ELSE IF Len(msg) < X3DH_headerSize + 1 THEN {0, 1, 2}
    ELSE IF Len(msg) = X3DH_headerSize + 1 THEN {0, 1, 2, X3DH_headerSize}
    ELSE {0, 1, 2, X3DH_headerSize}
         \cup (IF logged THEN CStringReads(msg, X3DH_headerSize + 1) ELSE {})

\* Mutant of ParseBundlesReads: the device id size is checked without the
\* byte of the OPk flag.
RECURSIVE ParseBundlesReadsNoFlagCheck(_, _, _, _, _)
ParseBundlesReadsNoFlagCheck(msg, peersBundleCount, i, index, reads) ==
    IF i >= peersBundleCount THEN reads
    ELSE IF Len(msg) < index + 2 THEN reads
    ELSE LET deviceIdSize == ReadU16(msg, index)
             atId == index + 2
             atFlag == atId + deviceIdSize
         IN  IF Len(msg) < atId + deviceIdSize
             THEN reads \cup {index, index + 1}
             ELSE IF Len(msg) < atFlag + 1
             THEN reads \cup (index..atFlag)
             ELSE LET haveOPk == HaveOPk(msg[atFlag + 1])
                      atIk == atFlag + 1
                      atOPk == atIk + EdKeyLen + DHLen + 4 + SigLen
                      end == IF haveOPk THEN atOPk + DHLen + 4 ELSE atOPk
                  IN  IF Len(msg) < atIk + BundleKeysSize(haveOPk)
                      THEN reads \cup (index..atFlag)
                      ELSE ParseBundlesReadsNoFlagCheck(msg, peersBundleCount,
                               i + 1, end, reads \cup (index..(end - 1)))

\* The (0-based) indexes of msg the loop of parseMessage_getPeerBundles
\* reads from bundle i on: the device id size, the device id, the OPk flag,
\* then the keys, the ids and the signature the bundle is constructed from.
RECURSIVE ParseBundlesReads(_, _, _, _, _)
ParseBundlesReads(msg, peersBundleCount, i, index, reads) ==
    IF i >= peersBundleCount THEN reads
    ELSE IF Len(msg) < index + 2 THEN reads
    ELSE LET deviceIdSize == ReadU16(msg, index)
             atId == index + 2
             atFlag == atId + deviceIdSize
         IN  IF Len(msg) < atId + deviceIdSize + 1
             THEN reads \cup {index, index + 1}
             ELSE LET haveOPk == HaveOPk(msg[atFlag + 1])
                      atIk == atFlag + 1
                      atOPk == atIk + EdKeyLen + DHLen + 4 + SigLen
                      end == IF haveOPk THEN atOPk + DHLen + 4 ELSE atOPk
                  IN  IF Len(msg) < atIk + BundleKeysSize(haveOPk)
                      THEN reads \cup (index..atFlag)
                      ELSE ParseBundlesReads(msg, peersBundleCount, i + 1, end,
                                             reads \cup (index..(end - 1)))

\* The (0-based) indexes of msg parseMessage_getPeerBundles reads.
GetPeerBundlesReads(msg) ==
    IF Len(msg) < X3DH_headerSize + 2 THEN {}
    ELSE ParseBundlesReads(msg, ReadU16(msg, X3DH_headerSize), 0,
                           X3DH_headerSize + 2,
                           {X3DH_headerSize, X3DH_headerSize + 1})

(***************************************************************************)
(* SpecParser: the parsers called on the bodies a server may send.         *)
(***************************************************************************)
\* Big endian integers of 2 and 4 bytes.
U16(n) == <<n \div 256, n % 256>>

U32(n) == <<0, 0, n \div 256, n % 256>>

\* One bundle as the peerBundle message carries it.
WireBundle(b) ==
    U16(Len(DeviceIdBytes(b.deviceId))) \o DeviceIdBytes(b.deviceId)
    \o <<IF b.haveOPk THEN 1 ELSE 0>>
    \o Bytes(b.Ik, EdKeyLen) \o Bytes(b.SPk, DHLen) \o U32(b.SPk_id)
    \o Bytes(b.SPk_sig, SigLen)
    \o (IF b.haveOPk THEN Bytes(b.OPk, DHLen) \o U32(b.OPk_id) ELSE <<>>)

RECURSIVE WireBundles(_)
WireBundles(bundles) ==
    IF bundles = <<>> THEN <<>>
    ELSE WireBundle(Head(bundles)) \o WireBundles(Tail(bundles))

\* A peerBundle message declaring count bundles and carrying bundles.
PeerBundleMessage(count, bundles) ==
    X3DH_makeHeader("peerBundle", CurveId) \o U16(count) \o WireBundles(bundles)

\* The bundles of the messages: one without an OPk, one with an OPk.
WireBundleSet == {PeerBundle("B", "B", 1, 0, 0), PeerBundle("C", "C", 2, 1, 0)}

\* The length of the longest bundle on the wire: the one with an OPk.
MaxWireBundleLen == Len(WireBundle(PeerBundle("C", "C", 2, 1, 0)))

WireBundleLists == UNION {[1..n -> WireBundleSet] : n \in 0..MaxBundles}

\* Headers of this and another protocol version, of this and another curve,
\* of every message type and of an unknown one, followed by nothing, by a
\* known or an unknown error code, or by an error code and a message.
OtherBodies ==
    {<<version, type, curve>> \o payload :
        version \in {X3DH_protocolVersion, X3DH_protocolVersion + 1},
        type \in {x3dh_message_type[t] : t \in DOMAIN x3dh_message_type} \cup {7},
        curve \in {CurveId, CurveId + 1},
        payload \in {<<>>, <<5>>, <<9>>, <<8, 33>>, <<8, 33, 0>>}}

\* The server sends the first cut bytes of a peerBundle message.
DeliverPeerBundle(count, bundles, cut) ==
    /\ body = <<>>
    /\ parseOut = <<>>
    /\ count <= Len(bundles) + 1
    /\ cut \in 0..Len(PeerBundleMessage(count, bundles))
    /\ body' = <<[bytes |-> SubSeq(PeerBundleMessage(count, bundles), 1, cut),
                  sent |-> <<[count |-> count, bundles |-> bundles]>>,
                  flags |-> <<>>,
                  built |-> <<>>]>>
    /\ UNCHANGED <<x3dhVars, clientVars, parseOut>>

\* The server sends the first cut bytes of another body.
DeliverOther(bytes, cut) ==
    /\ body = <<>>
    /\ parseOut = <<>>
    /\ cut \in 0..Len(bytes)
    /\ body' = <<[bytes |-> SubSeq(bytes, 1, cut), sent |-> <<>>, flags |-> <<>>,
                  built |-> <<>>]>>
    /\ UNCHANGED <<x3dhVars, clientVars, parseOut>>

\* The bundle at position i of a message whose OPk flag bytes are chosen.
FlaggedSource(i) ==
    IF i = 1 THEN PeerBundle("C", "C", 2, 1, 0) ELSE PeerBundle("B", "B", 1, 2, 0)

\* A bundle on the wire with the OPk flag byte flag: the OPk and its id
\* follow the signature unless the flag byte is zero.
WireBundleFlagged(b, flag) ==
    U16(Len(DeviceIdBytes(b.deviceId))) \o DeviceIdBytes(b.deviceId)
    \o <<flag>>
    \o Bytes(b.Ik, EdKeyLen) \o Bytes(b.SPk, DHLen) \o U32(b.SPk_id)
    \o Bytes(b.SPk_sig, SigLen)
    \o (IF flag # 0 THEN Bytes(b.OPk, DHLen) \o U32(b.OPk_id) ELSE <<>>)

RECURSIVE WireBundlesFlagged(_, _)
WireBundlesFlagged(flags, i) ==
    IF i > Len(flags) THEN <<>>
    ELSE WireBundleFlagged(FlaggedSource(i), flags[i])
         \o WireBundlesFlagged(flags, i + 1)

\* The values of the OPk flag byte: zero, one, and two other ones.
FlagBytes == {0, 1, 2, 255}

FlagLists == UNION {[1..n -> FlagBytes] : n \in 1..MaxBundles}

\* The server sends a peerBundle message whose bundles carry the OPk flag
\* bytes flags.
DeliverFlagged(flags) ==
    /\ body = <<>>
    /\ parseOut = <<>>
    /\ body' = <<[bytes |-> X3DH_makeHeader("peerBundle", CurveId)
                            \o U16(Len(flags)) \o WireBundlesFlagged(flags, 1),
                  sent |-> <<>>,
                  flags |-> flags,
                  built |-> <<>>]>>
    /\ UNCHANGED <<x3dhVars, clientVars, parseOut>>

\* parseMessage_getType is called on the body, its output parameters
\* holding message_type and error_code; logged says whether the error log
\* is written.
CallGetType(message_type, error_code, logged) ==
    /\ body # <<>>
    /\ parseOut = <<>>
    /\ parseOut' = <<[fn |-> "parseMessage_getType",
                      entry |-> [message_type |-> message_type,
                                 error_code |-> error_code],
                      out |-> parseMessage_getType(body[1].bytes, message_type,
                                                   error_code),
                      reads |-> GetTypeReads(body[1].bytes, logged)]>>
    /\ UNCHANGED <<x3dhVars, clientVars, body>>

\* parseMessage_getPeerBundles is called on the body, its output parameter
\* holding peersBundle.
CallGetPeerBundles(peersBundle) ==
    /\ body # <<>>
    /\ parseOut = <<>>
    /\ parseOut' = <<[fn |-> "parseMessage_getPeerBundles",
                      entry |-> [peersBundle |-> peersBundle],
                      out |-> parseMessage_getPeerBundles(body[1].bytes,
                                                          peersBundle),
                      reads |-> GetPeerBundlesReads(body[1].bytes)]>>
    /\ UNCHANGED <<x3dhVars, clientVars, body>>

\* Short lists of device ids.
ShortLists ==
    UNION {[1..n -> {DeviceIdBytes("B"), DeviceIdBytes("C")}] : n \in 0..MaxBundles}

\* The lists of device ids a bundle request is built for: short ones, and
\* lists of 0xFFFF and of 0x10000 device ids.
RequestedLists ==
    ShortLists \cup {[i \in 1..n |-> DeviceIdBytes("B")] : n \in {65535, 65536}}

\* A message of the directory protocol: its type, its bytes, and the error
\* code or the bundles it carries.
Message(type, bytes, code, bundles) ==
    [type |-> type, bytes |-> bytes, code |-> code, bundles |-> bundles]

\* The requests the builders make of the keys of the instance.
BuiltRequests ==
    {Message("registerUser",
             buildMessage_registerUser(Bytes(EdPublic(IkSecret["A"]), EdKeyLen)),
             "unset_error_code", <<>>),
     Message("deleteUser", buildMessage_deleteUser, "unset_error_code", <<>>)}
    \cup {Message("postSPk",
                  buildMessage_publishSPk(
                      Bytes(XPublic(SPkSecret["A"][id]), DHLen),
                      Bytes(Sign(IkSecret["A"], XPublic(SPkSecret["A"][id])), SigLen),
                      id),
                  "unset_error_code", <<>>) : id \in SPkIds}
    \cup {Message("postOPks",
                  buildMessage_publishOPks(
                      [i \in 1..n |-> Bytes(XPublic(OPkSecret["A"][i]), DHLen)],
                      [i \in 1..n |-> i]),
                  "unset_error_code", <<>>) : n \in 0..Cardinality(OPkIds)}
    \cup {Message("getPeerBundle", buildMessage_getPeerBundles(ids).message,
                  "unset_error_code", <<>>) : ids \in ShortLists}

\* The well-formed answers of the server: the header of the request as an
\* acknowledgement, a peerBundle message, an error code with or without a
\* text.
WellFormedAnswers ==
    {Message(t, X3DH_makeHeader(t, CurveId), "unset_error_code", <<>>) :
        t \in {"registerUser", "deleteUser", "postSPk", "postOPks"}}
    \cup {Message("peerBundle", PeerBundleMessage(Len(bundles), bundles),
                  "unset_error_code", bundles) : bundles \in WireBundleLists}
    \cup {Message("error",
                  X3DH_makeHeader("error", CurveId) \o <<x3dh_error_code[code]>>
                  \o text, code, <<>>) :
              code \in {"user_not_found", "bad_request"}, text \in {<<>>, <<33>>}}

\* The parsers are given a built request or a well-formed answer, or a
\* well-formed answer without its last byte (drop = 1).
DeliverBuilt(m, drop) ==
    /\ body = <<>>
    /\ parseOut = <<>>
    /\ drop = 1 => m \in WellFormedAnswers
    /\ body' = <<[bytes |-> SubSeq(m.bytes, 1, Len(m.bytes) - drop),
                  sent |-> <<>>,
                  flags |-> <<>>,
                  built |-> <<[type |-> m.type, code |-> m.code,
                               bundles |-> m.bundles, drop |-> drop]>>]>>
    /\ UNCHANGED <<x3dhVars, clientVars, parseOut>>

\* buildMessage_getPeerBundles is called on a list of device ids.
CallBuildGetPeerBundles(peer_device_ids) ==
    /\ body = <<>>
    /\ parseOut = <<>>
    /\ parseOut' = <<[fn |-> "buildMessage_getPeerBundles",
                      entry |-> [size |-> Len(peer_device_ids)],
                      out |-> buildMessage_getPeerBundles(peer_device_ids),
                      reads |-> {}]>>
    /\ UNCHANGED <<x3dhVars, clientVars, body>>

NextParser ==
    \/ \E bundles \in WireBundleLists, count \in 0..(MaxBundles + 1),
          cut \in 0..(X3DH_headerSize + 2 + MaxBundles * MaxWireBundleLen) :
          DeliverPeerBundle(count, bundles, cut)
    \/ \E bytes \in OtherBodies : \E cut \in 0..Len(bytes) : DeliverOther(bytes, cut)
    \/ \E flags \in FlagLists : DeliverFlagged(flags)
    \/ \E m \in BuiltRequests \cup WellFormedAnswers, drop \in {0, 1} :
          DeliverBuilt(m, drop)
    \/ \E message_type \in {"unset_type", "registerUser"},
          error_code \in {"unset_error_code", "bad_request"},
          logged \in BOOLEAN :
          CallGetType(message_type, error_code, logged)
    \/ \E peersBundle \in {<<>>, <<[deviceId |-> <<65>>]>>} :
          CallGetPeerBundles(peersBundle)
    \/ \E peer_device_ids \in RequestedLists :
          CallBuildGetPeerBundles(peer_device_ids)

SpecParser == Init /\ [][NextParser]_vars

(***************************************************************************)
(* Claims on the parsers (checked under SpecParser).                       *)
(***************************************************************************)
\* What the parser makes of a bundle the message carries.
ParsedBundle(b) ==
    [deviceId |-> DeviceIdBytes(b.deviceId),
     haveOPk  |-> b.haveOPk,
     Ik       |-> Bytes(b.Ik, EdKeyLen),
     SPk      |-> Bytes(b.SPk, DHLen),
     SPk_id   |-> b.SPk_id,
     SPk_sig  |-> Bytes(b.SPk_sig, SigLen),
     OPk      |-> IF b.haveOPk THEN Bytes(b.OPk, DHLen) ELSE <<>>,
     OPk_id   |-> IF b.haveOPk THEN b.OPk_id ELSE 0]

\* The bytes a peerBundle message needs to hold the count bundles it
\* declares, the first count of bundles.
NeededBytes(count, bundles) ==
    Len(PeerBundleMessage(count, SubSeq(bundles, 1, count)))

\* parseMessage_getPeerBundles was called on the body.
GotPeerBundles ==
    parseOut # <<>> /\ parseOut[1].fn = "parseMessage_getPeerBundles"

\* C19: parseMessage_getPeerBundles returns false with an empty peersBundle
\* for every body cut short of what its declared count needs, wherever the
\* cut falls and whatever peersBundle held on entry; it returns true only
\* with the declared count of bundles, and then they are the bundles sent.
C19_NoPartialBundles ==
    GotPeerBundles =>
        LET out == parseOut[1].out
            bytes == body[1].bytes
        IN  /\ ~out.ret => out.peersBundle = <<>>
            /\ out.ret =>
                  /\ Len(bytes) >= X3DH_headerSize + 2
                  /\ Len(out.peersBundle) = ReadU16(bytes, X3DH_headerSize)
            /\ body[1].sent # <<>> =>
                  LET sent == body[1].sent[1]
                  IN  IF sent.count <= Len(sent.bundles)
                         /\ Len(bytes) >= NeededBytes(sent.count, sent.bundles)
                      THEN /\ out.ret
                           /\ out.peersBundle =
                                [i \in 1..sent.count |-> ParsedBundle(sent.bundles[i])]
                      ELSE ~out.ret /\ out.peersBundle = <<>>

\* A message of two bundles was cut after its first bundle, inside the
\* second one, and the parser, called with a peersBundle that was not empty,
\* returned false.
C19_Witness ==
    /\ GotPeerBundles
    /\ body[1].sent # <<>>
    /\ body[1].sent[1].count = 2
    /\ Len(body[1].sent[1].bundles) = 2
    /\ Len(body[1].bytes) > NeededBytes(1, body[1].sent[1].bundles) + 3
    /\ Len(body[1].bytes) < NeededBytes(2, body[1].sent[1].bundles)
    /\ parseOut[1].entry.peersBundle # <<>>
    /\ ~parseOut[1].out.ret

\* C20 as stated: when parseMessage_getType returns false, message_type and
\* error_code hold what they held on entry.
C20_Original ==
    (/\ parseOut # <<>>
     /\ parseOut[1].fn = "parseMessage_getType"
     /\ ~parseOut[1].out.ret) =>
        /\ parseOut[1].out.message_type = parseOut[1].entry.message_type
        /\ parseOut[1].out.error_code = parseOut[1].entry.error_code

\* parseMessage_getPeerBundles was called on a message whose bundles carry
\* chosen OPk flag bytes.
GotFlagged == GotPeerBundles /\ body[1].flags # <<>>

\* C22: for each bundle parseMessage_getPeerBundles parses, haveOPk is true
\* and the OPk and its id are read from the bytes after SPk_sig if and only
\* if the flag byte is not zero, whatever value in 1..255 it has; when it is
\* zero no OPk byte is consumed and the next bundle starts right after
\* SPk_sig.
C22_FlagByteNonZero ==
    GotFlagged =>
        LET out == parseOut[1].out
            flags == body[1].flags
        IN  /\ out.ret
            /\ Len(out.peersBundle) = Len(flags)
            /\ \A i \in 1..Len(flags) :
                  LET b == FlaggedSource(i)
                      got == out.peersBundle[i]
                  IN  /\ got.deviceId = DeviceIdBytes(b.deviceId)
                      /\ got.Ik = Bytes(b.Ik, EdKeyLen)
                      /\ got.SPk = Bytes(b.SPk, DHLen)
                      /\ got.SPk_id = b.SPk_id
                      /\ got.SPk_sig = Bytes(b.SPk_sig, SigLen)
                      /\ got.haveOPk = (flags[i] # 0)
                      /\ flags[i] # 0 => /\ got.OPk = Bytes(b.OPk, DHLen)
                                         /\ got.OPk_id = b.OPk_id
                      /\ flags[i] = 0 => got.OPk = <<>>

\* A message of two bundles was parsed whose first bundle has the flag byte
\* 0 and no OPk, and whose second one has the flag byte 255 and an OPk.
C22_Witness ==
    /\ GotFlagged
    /\ body[1].flags = <<0, 255>>
    /\ parseOut[1].out.peersBundle[2].haveOPk
    /\ parseOut[1].out.ret
    /\ Len(parseOut[1].out.peersBundle) = 2

\* C21 as stated: every built request and every well-formed answer parses
\* to what was encoded (the message type, the error code, the bundles), and
\* a well-formed answer (acknowledgement, peerBundle, error with or without
\* a text) without its last byte fails to parse and leaves the outputs as
\* they were on entry.
C21_Original ==
    (parseOut # <<>> /\ body # <<>> /\ body[1].built # <<>>) =>
        LET m == body[1].built[1]
            call == parseOut[1]
            out == call.out
        IN  IF m.drop = 0
            THEN /\ call.fn = "parseMessage_getType" =>
                       /\ out.ret
                       /\ out.message_type = m.type
                       /\ m.type = "error" => out.error_code = m.code
                 /\ (call.fn = "parseMessage_getPeerBundles"
                        /\ m.type = "peerBundle") =>
                       /\ out.ret
                       /\ out.peersBundle =
                            [i \in 1..Len(m.bundles) |-> ParsedBundle(m.bundles[i])]
            ELSE /\ (call.fn = "parseMessage_getType" /\ m.type # "peerBundle") =>
                       /\ ~out.ret
                       /\ out.message_type = call.entry.message_type
                       /\ out.error_code = call.entry.error_code
                 /\ (call.fn = "parseMessage_getPeerBundles"
                        /\ m.type = "peerBundle") =>
                       /\ ~out.ret
                       /\ out.peersBundle = <<>>

\* buildMessage_getPeerBundles was called.
BuiltGetPeerBundles ==
    parseOut # <<>> /\ parseOut[1].fn = "buildMessage_getPeerBundles"

\* C23 as stated: for every list of requested device ids, lists longer than
\* 0xFFFF included, the 16-bit count of the getPeerBundle message equals the
\* number of device id entries that follow it.
C23_Original ==
    BuiltGetPeerBundles =>
        ReadU16(parseOut[1].out.message, X3DH_headerSize)
            = Len(parseOut[1].out.peer_device_ids)

(***************************************************************************)
(* SpecDirectory: one Lime instance running the operations of the X3DH     *)
(* server (user registration, deleteUser, postSPk, postOPks, the bundle    *)
(* fetch of an encryption), the server answering, and the instance being   *)
(* destroyed while requests are outstanding.                               *)
(***************************************************************************)
MaxOperations == 2
MaxExchanges == 3

\* The first request of an operation that is not an encryption.
Operations == {"registerUser", "deleteUser", "postSPk", "postOPks"}

\* The application starts an operation: the userData is made with new, its
\* state machine armed for a registration only, and the request is posted.
\* The log keeps the operation of the id.
StartOperation(op) ==
    /\ limeObj = "alive"
    /\ issued < MaxOperations
    /\ issued' = issued + 1
    /\ Commit(postToX3DHServer(
                  Logged([Current EXCEPT !.user = IF op = "registerUser" THEN TRUE ELSE @],
                         "start", issued + 1, TRUE, {op}),
                  [id |-> issued + 1, op |-> op,
                   network_state_machine |->
                       IF op = "registerUser" THEN "sendSPk" ELSE "done"],
                  {}))
    /\ UNCHANGED <<limeObj, opkStore, lastCall, received, spkStore, sessionStore,
                   answered, parserVars>>

\* The application encrypts to B.
EncryptToB ==
    /\ issued < MaxOperations
    /\ AppEncrypt({"B"})

\* The last owner of the Lime object lets it go while requests may be
\* outstanding: the weak pointers of the userData expire.  The variables of
\* the instance keep what its members held when it was destroyed.
Destroy ==
    /\ limeObj = "alive"
    /\ limeObj' = "destroyed"
    /\ UNCHANGED <<peerStore, opkStore, cache, lastCall, received, spkStore,
                   sessionStore, clientVars,
                   parserVars>>

\* belle-sip hands the response to posted request i to process_response
\* after the instance was destroyed.  On a 200 response the weak pointer of the
\* userData is locked and the userData deleted.  The userData of an
\* encryption was owned by m_ongoing_encryption and went with the instance:
\* reading and deleting it is undefined, the process goes on or stops.
LateResponse(i, code) ==
    /\ limeObj = "destroyed"
    /\ i \in 1..Len(posted)
    /\ answered' = answered + 1
    /\ posted' = Without(posted, i)
    /\ IF code = 200
       THEN /\ log' = Append(log, Event("delete", posted[i].userData.id, TRUE, {}))
            /\ limeObj' \in IF IsEncryption(posted[i].userData)
                            THEN {"destroyed", "aborted"} ELSE {"destroyed"}
       ELSE UNCHANGED <<log, limeObj>>
    /\ UNCHANGED <<peerStore, opkStore, cache, lastCall, received, spkStore,
                   sessionStore, localUser,
                   ongoing, queue, issued, parserVars>>

NextDirectory ==
    \/ \E op \in Operations : StartOperation(op)
    \/ EncryptToB
    \/ \E i \in Pending(MaxExchanges), bundles \in {<<PeerBundle("B", "B", 1, 1, 0)>>} :
          ResponsePeerBundle(i, bundles, NthEkSecret(answered))
    \/ \E i \in Pending(MaxExchanges) : ResponseInvalidPeerBundle(i)
    \/ \E i \in Pending(MaxExchanges), code \in {"user_already_in", "user_not_found"} :
          ResponseError(i, code)
    \/ \E i \in Pending(MaxExchanges), header \in {"failed", "silent"} :
          ResponseRejected(i, header)
    \/ \E i \in Pending(MaxExchanges), message_type \in OtherTypes :
          ResponseOtherType(i, message_type)
    \/ \E i \in Pending(MaxExchanges) : ResponseNot200(i)
    \/ \E i \in Pending(MaxExchanges) : process_io_error(i)
    \/ Destroy
    \/ \E i \in Pending(MaxExchanges), code \in {200, 500} : LateResponse(i, code)

SpecDirectory == Init /\ [][NextDirectory]_vars

(***************************************************************************)
(* Claims on the operations of the X3DH server (checked under              *)
(* SpecDirectory, C16 under Spec).                                         *)
(***************************************************************************)
\* id is an operation started as op.
IsOperation(id, op) == \E k \in 1..Len(log) : log[k] = Event("start", id, TRUE, {op})

\* The requests of id posted before place k of the log.
PostsBefore(id, k) == {j \in 1..(k - 1) : log[j].ev = "post" /\ log[j].id = id}

\* What a step added to the log.
NewEvents == {log'[k] : k \in (Len(log) + 1)..Len(log')}

\* The callbacks of id so far.
CallbacksOf(id) == {k \in 1..Len(log) : log[k].ev = "callback" /\ log[k].id = id}

\* C11 as stated: the success callback of a registration is called only
\* after its three requests (registerUser, postSPk, postOPks) were posted
\* and answered one after the other.
C11_Original ==
    \A k \in 1..Len(log) :
        (/\ log[k].ev = "callback"
         /\ log[k].ok
         /\ IsOperation(log[k].id, "registerUser")) =>
            /\ Cardinality(PostsBefore(log[k].id, k)) = 3
            /\ \A i \in 1..Len(posted) : posted[i].userData.id # log[k].id

\* Posted request i is that of a registration in a state that is not the
\* last one, and message_type is not the type this state waits for.
Unexpected(i, message_type) ==
    /\ ~IsEncryption(posted[i].userData)
    /\ posted[i].userData.network_state_machine \in {"sendSPk", "sendOPk"}
    /\ message_type # RequestType(posted[i].userData)

\* C12 as stated: a response of an unexpected message type to a
\* registration that is not in its last state ends it with the fail
\* callback, never with the success callback.
C12_Original ==
    [][\A i \in 1..Len(posted), message_type \in OtherTypes :
          (Unexpected(i, message_type) /\ ResponseOtherType(i, message_type)) =>
              /\ Event("callback", posted[i].userData.id, FALSE, {}) \in NewEvents
              /\ Event("callback", posted[i].userData.id, TRUE, {}) \notin NewEvents]_vars

\* C13 as stated: every error message answering a request of a registration
\* deletes the user from local storage.
C13_Original ==
    [][\A i \in 1..Len(posted), code \in {"user_already_in", "user_not_found"} :
          (/\ ~IsEncryption(posted[i].userData)
           /\ posted[i].userData.op = "registerUser"
           /\ ResponseError(i, code)) => ~localUser']_vars

\* The message type that answers the request of userData.
AnswerType(userData) ==
    IF IsEncryption(userData) THEN "peerBundle" ELSE RequestType(userData)

\* C14 as stated: the success callback of deleteUser, postSPk or postOPks is
\* called only on a response of the type of the request, and the request of
\* an encryption (getPeerBundle) is answered by a peerBundle message only.
C14_Original ==
    [][\A i \in 1..Len(posted), message_type \in OtherTypes :
          (/\ \/ IsEncryption(posted[i].userData)
              \/ posted[i].userData.op \in {"deleteUser", "postSPk", "postOPks"}
           /\ ResponseOtherType(i, message_type)
           /\ Event("callback", posted[i].userData.id, TRUE, {}) \in NewEvents) =>
              message_type = AnswerType(posted[i].userData)]_vars

\* The exchange of id with the server is over: it posted a request and
\* none of its requests waits for an answer.
ExchangeEnded(id) ==
    /\ \E k \in 1..Len(log) : log[k].ev = "post" /\ log[k].id = id
    /\ \A i \in 1..Len(posted) : posted[i].userData.id # id

\* C15 as stated: the instance being alive, an operation whose exchange with
\* the server is over had its callback called exactly once.
C15_Original ==
    limeObj = "alive" =>
        \A id \in 1..issued :
            ExchangeEnded(id) => Cardinality(CallbacksOf(id)) = 1

\* C16 as stated, its safety part: once the server answered every request, in
\* any way, the ongoing slot is released and no encryption is left queued.
C16_Original ==
    (limeObj = "alive" /\ posted = <<>>) => (ongoing = <<>> /\ queue = <<>>)

\* C17 as stated: the response that comes after the instance was destroyed
\* changes nothing: no session, no store, no queue, no new encryption, the
\* process goes on with the instance gone.
C17_Original ==
    [][\A i \in 1..Len(posted), code \in {200, 500} :
          LateResponse(i, code) =>
              /\ limeObj' = "destroyed"
              /\ UNCHANGED <<cache, peerStore, localUser, ongoing, queue>>
              /\ \A e \in NewEvents : e.ev = "delete"]_vars

(***************************************************************************)
(* SpecReceiver: the instance runs X3DH_init_receiver_session on the init  *)
(* messages of its peers, while SPks leave its local storage.              *)
(***************************************************************************)
MaxReceipts == 2

\* The init message peer d builds from the bundle of the instance with SPk
\* spk and OPk opk (0: no OPk).
InitMessageFrom(d, spk, opk) ==
    SenderSession(d, PeerBundle(SelfDevice, SelfDevice, spk, opk, 0),
                  EkOf(17, 1), 1).X3DH_initMessage

\* An SPk leaves the local storage of the instance.
DropSPk(id) ==
    /\ limeObj = "alive"
    /\ id \in spkStore[SelfDevice]
    /\ spkStore' = [spkStore EXCEPT ![SelfDevice] = @ \ {id}]
    /\ UNCHANGED <<limeObj, peerStore, opkStore, cache, lastCall, received,
                   sessionStore, clientVars, parserVars>>

\* The instance runs X3DH_init_receiver_session on the init message peer d
\* built, received with senderDeviceId as the device id of its sender (d,
\* or B when d passes itself off as B).  The call is logged with local
\* storage as it was before (pre) and as it is after (post).
ReceiveInit(d, senderDeviceId, spk, opk) ==
    /\ limeObj = "alive"
    /\ Len(log) < MaxReceipts
    /\ senderDeviceId \in {d, "B"}
    /\ LET X3DH_initMessage == InitMessageFrom(d, spk, opk)
           pre == [spks |-> spkStore[SelfDevice], opks |-> opkStore[SelfDevice],
                   peers |-> peerStore[SelfDevice]]
       IN  \E out \in X3DH_init_receiver_session(SelfDevice, X3DH_initMessage,
                          senderDeviceId, pre.spks, pre.opks, pre.peers) :
              /\ limeObj' = IF out.status = "abort" THEN "aborted" ELSE limeObj
              /\ opkStore' = [opkStore EXCEPT ![SelfDevice] = out.opks]
              /\ peerStore' = [peerStore EXCEPT ![SelfDevice] = out.peers]
              /\ log' = Append(log, [ev |-> "receive",
                                     senderDeviceId |-> senderDeviceId,
                                     init |-> X3DH_initMessage,
                                     status |-> out.status,
                                     session |-> out.session,
                                     buffers |-> out.buffers,
                                     pre |-> pre,
                                     post |-> [spks |-> pre.spks,
                                               opks |-> out.opks,
                                               peers |-> out.peers]])
    /\ UNCHANGED <<cache, lastCall, received, spkStore, sessionStore, localUser,
                   ongoing, queue, posted, issued, answered, parserVars>>

NextReceiver ==
    \/ \E id \in SPkIds : DropSPk(id)
    \/ \E d \in Peers, senderDeviceId \in Peers, spk \in SPkIds, opk \in {0, 1} :
          ReceiveInit(d, senderDeviceId, spk, opk)

SpecReceiver == Init /\ [][NextReceiver]_vars

(***************************************************************************)
(* Claims on the receiver (checked under SpecReceiver).                    *)
(***************************************************************************)
\* The fields of the init message of the logged call r.
InitOf(r) == parseMessage_X3DHinit(r.init)

\* The HKDF inputs the instance derives from the init message init with its
\* SPk of id SPk_id.
HKDFInputsWith(init, SPk_id) ==
    {v.data : v \in ReceiverHKDFInputs(SelfDevice, init,
                        SPkSecret[SelfDevice][SPk_id],
                        IF init.OPk_flag THEN OPkSecret[SelfDevice][init.OPk_id]
                        ELSE 0)}

\* C24: X3DH_init_receiver_session uses exactly the SPk whose id the init
\* message holds: when that id is not in local storage the call throws,
\* makes no session and leaves local storage as it was, whatever other SPk
\* local storage holds; when the call returns, the session holds that SPk
\* and its key is derived from it.
C24_ExactSPk ==
    \A i \in DOMAIN log :
        LET r == log[i]
            init == InitOf(r)
        IN  /\ init.SPk_id \notin r.pre.spks =>
                  /\ r.status = "throw"
                  /\ r.session = <<>>
                  /\ r.post = r.pre
            /\ r.status = "ok" =>
                  /\ init.SPk_id \in r.pre.spks
                  /\ r.session[1].SPk = XPublic(SPkSecret[SelfDevice][init.SPk_id])
                  /\ r.session[1].hkdfInput \in HKDFInputsWith(init, init.SPk_id)
                  /\ \A other \in SPkIds \ {init.SPk_id} :
                        r.session[1].hkdfInput \notin HKDFInputsWith(init, other)

\* A call on an init message naming an SPk that left local storage, which
\* still holds another SPk, threw; an earlier call on the same init message
\* had returned a session.
C24_Witness ==
    \E i, j \in DOMAIN log :
        /\ i < j
        /\ log[i].init = log[j].init
        /\ log[i].status = "ok"
        /\ InitOf(log[j]).SPk_id \notin log[j].pre.spks
        /\ log[j].pre.spks # {}
        /\ log[j].status = "throw"

C26_Original ==
    \A i \in DOMAIN log :
        LET r == log[i]
            init == InitOf(r)
        IN  /\ r.status = "throw" =>
                  /\ r.post.opks = r.pre.opks
                  /\ r.post.peers = r.pre.peers
                  /\ r.session = <<>>
            /\ r.status = "ok" =>
                  /\ init.OPk_flag => init.OPk_id \notin r.post.opks
                  /\ PeerRow(r.post.peers, r.senderDeviceId) # 0
                  /\ r.session # <<>>

(***************************************************************************)
(* SpecDerivation: the two key derivations, each on its own: one call of   *)
(* X3DH_init_sender_session by an instance that received nothing, or calls *)
(* of X3DH_init_receiver_session by an instance that made no sender call.  *)
(***************************************************************************)
SenderInitAlone(bundles, ek0) ==
    /\ log = <<>>
    /\ SenderInit(bundles, ek0)

ReceiveInitAlone(d, senderDeviceId, spk, opk) ==
    /\ lastCall = <<>>
    /\ ReceiveInit(d, senderDeviceId, spk, opk)

NextDerivation ==
    \/ \E bundles \in BundleLists, ek0 \in EkSecrets : SenderInitAlone(bundles, ek0)
    \/ \E d \in Peers, senderDeviceId \in Peers, spk \in SPkIds, opk \in {0, 1} :
          ReceiveInitAlone(d, senderDeviceId, spk, opk)

SpecDerivation == Init /\ [][NextDerivation]_vars

\* The buffer holds only zero bytes.
Zeroized(buf) == \A i \in DOMAIN buf : buf[i] = 0

\* The buffers b of a derivation hold only zero bytes, each over its whole
\* length.
CleanAtExit(b) ==
    /\ Len(b.HKDF_input) = Len(b.input)
    /\ Zeroized(b.HKDF_input)
    /\ Len(b.prk) = Len(ZeroFilledSalt)
    /\ Zeroized(b.prk)
    /\ Len(b.DH_out) = DHLen
    /\ Zeroized(b.DH_out)

\* The logged receiver call r got past the loading of the prekeys.
KeysLoaded(r) ==
    /\ InitOf(r).SPk_id \in r.pre.spks
    /\ InitOf(r).OPk_flag => InitOf(r).OPk_id \in r.pre.opks

SaveSession(d) ==
    /\ limeObj = "alive"
    /\ d \in DOMAIN cache
    /\ sessionStore[d] # <<cache[d]>>
    /\ sessionStore' = [sessionStore EXCEPT ![d] = <<cache[d]>>]
    /\ log' = Append(log, Event("save", 0, TRUE, {d}))
    /\ UNCHANGED <<limeObj, peerStore, opkStore, cache, lastCall, received,
                   spkStore, localUser, ongoing, queue, posted, issued, answered,
                   parserVars>>

NextSessions ==
    \/ \E bundles \in BundleLists, ek0 \in EkSecrets : SenderInit(bundles, ek0)
    \/ \E d \in Peers, opk \in {0, 1} : SelfReceives(d, opk)
    \/ \E d \in Peers : SaveSession(d)

SpecSessions == Init /\ [][NextSessions]_vars

\* The session cached for d was installed by the last call of
\* X3DH_init_sender_session and no message was encrypted with it since.
FreshFromSender(d) ==
    /\ Called
    /\ d \in DOMAIN cache
    /\ d \in DOMAIN Call.preCache => cache[d] # Call.preCache[d]
    /\ \A k \in DOMAIN log :
          (log[k].ev = "save" /\ log[k].devs = {d}) => k <= Call.at

OwnerOf(b) == CHOOSE o \in Devices : EdPublic(IkSecret[o]) = b.Ik

\* The n-th shared secret of the HKDF input in.
DHOf(in, n) == SubSeq(in, EdKeyLen + (n - 1) * DHLen + 1, EdKeyLen + n * DHLen)

\* The session s was made from the bundle b and its init message describes
\* that derivation: it holds the identity key of the instance, the SPk id
\* and the OPk flag and id of b, and the public part of the ephemeral key
\* DH2, DH3 and DH4 of s were computed with, as the owner of the keys of b
\* computes them from it.
InitMessageOf(s, b) ==
    LET init == parseMessage_X3DHinit(s.X3DH_initMessage)
        o == OwnerOf(b)
    IN  /\ Len(s.X3DH_initMessage) = 5
        /\ init.peerIk = EdPublic(IkSecret[SelfDevice])
        /\ init.SPk_id = b.SPk_id
        /\ init.OPk_flag = b.haveOPk
        /\ init.OPk_id = IF b.haveOPk THEN b.OPk_id ELSE 0
        /\ DHOf(s.hkdfInput, 2) = Bytes(DH(IkSecret[o], init.Ek), DHLen)
        /\ DHOf(s.hkdfInput, 3) = Bytes(DH(SPkSecret[o][b.SPk_id], init.Ek), DHLen)
        /\ b.haveOPk =>
              DHOf(s.hkdfInput, 4) = Bytes(DH(OPkSecret[o][b.OPk_id], init.Ek), DHLen)

\* C34: the init message of every session X3DH_init_sender_session made
\* carries the identity public key of the sender, the public part of the
\* ephemeral key used for DH2..DH4 of the same bundle, the SPk id of the
\* bundle, and the OPk flag equal to haveOPk of the bundle with its OPk id
\* when the flag is set and 0 otherwise.
C34_InitMessageOfBundle ==
    Called =>
        \A d \in DOMAIN cache :
            (d \notin DOMAIN Call.preCache \/ cache[d] # Call.preCache[d]) =>
                \E i \in 1..Len(Call.built) :
                    /\ Call.bundles[i].deviceId = d
                    /\ InitMessageOf(cache[d], Call.bundles[i])

\* A call made sessions from two bundles, one with an OPk and one without,
\* each with its own ephemeral key.
C34_Witness ==
    /\ Called
    /\ Len(Call.built) = 2
    /\ \E d, e \in DOMAIN cache :
          /\ d # e
          /\ Call.bundles[1].deviceId = d /\ Call.bundles[1].haveOPk
          /\ Call.bundles[2].deviceId = e /\ ~Call.bundles[2].haveOPk
          /\ InitMessageOf(cache[d], Call.bundles[1])
          /\ InitMessageOf(cache[e], Call.bundles[2])
          /\ cache[d].X3DH_initMessage[3] # cache[e].X3DH_initMessage[3]

(***************************************************************************)
(* Claims on the bytes the parsers read (checked under SpecParser).        *)
(***************************************************************************)
GotType == parseOut # <<>> /\ parseOut[1].fn = "parseMessage_getType"

\* C35: parseMessage_getPeerBundles reads only bytes of the body at indexes
\* strictly below bodySize, whatever the body holds and wherever it is cut.
C35_ReadsBelowBodySize ==
    GotPeerBundles =>
        \A i \in parseOut[1].reads : i >= 0 /\ i < Len(body[1].bytes)

\* A body cut inside the OPk of its second bundle: the call read the whole
\* first bundle and the device id and flag of the second, and returned false.
C35_Witness ==
    /\ GotPeerBundles
    /\ body[1].sent # <<>>
    /\ Len(body[1].sent[1].bundles) = 2
    /\ body[1].sent[1].count = 2
    /\ body[1].sent[1].bundles[2].haveOPk
    /\ Len(body[1].bytes) = Len(PeerBundleMessage(2, body[1].sent[1].bundles)) - 1
    /\ ~parseOut[1].out.ret
    /\ X3DH_headerSize + 2 + Len(WireBundle(body[1].sent[1].bundles[1])) + 3
           \in parseOut[1].reads
    /\ Len(body[1].bytes) - 1 \notin parseOut[1].reads

\* C36 as stated: parseMessage_getType reads only bytes of the body at
\* indexes strictly below bodySize, error messages with a text included.
C36_Original ==
    GotType => \A i \in parseOut[1].reads : i < Len(body[1].bytes)

(***************************************************************************)
(* Claims on the error messages of the server (checked under               *)
(* SpecDirectory).                                                         *)
(***************************************************************************)
\* C37: an error message of the server deletes the local user exactly when
\* its error code is user_already_in, whatever the operation it answers and
\* whatever the state of the registration machine: with that code the user
\* is not in local storage afterwards, with any other code local storage
\* holds the user as before.
C37_DeletedIffAlreadyIn ==
    [][\A i \in 1..Len(posted), code \in {"user_already_in", "user_not_found"} :
          ResponseError(i, code) =>
              localUser' = (localUser /\ code # "user_already_in")]_vars

\* The only operation so far is a registration whose second request (the
\* SPk) was answered with an error message: the user is deleted, which
\* only the code user_already_in does.
C37_Witness ==
    /\ issued = 1
    /\ IsOperation(1, "registerUser")
    /\ Cardinality(PostsBefore(1, Len(log) + 1)) = 2
    /\ posted = <<>>
    /\ log[Len(log) - 1] = Event("callback", 1, FALSE, {})
    /\ ~localUser

(***************************************************************************)
(* Claims on a response whose k-th bundle is refused (checked under Spec). *)
(***************************************************************************)
\* Bundle b is refused by an instance whose peer devices table is peers: its
\* SPk signature does not verify, or its device is known with another
\* identity key.
Refused(peers, b) ==
    \/ ~Verify(b.Ik, b.SPk, b.SPk_sig)
    \/ /\ PeerRow(peers, b.deviceId) # 0
       /\ peers[PeerRow(peers, b.deviceId)].Ik # b.Ik

\* Bundle k is the first refused bundle of the list.
FirstRefused(bundles, k) ==
    /\ k \in 1..Len(bundles)
    /\ Refused(peerStore[SelfDevice], bundles[k])
    /\ \A j \in 1..(k - 1) : ~Refused(peerStore[SelfDevice], bundles[j])

\* C38: when the k-th bundle of a peerBundle response is refused (signature
\* or peer store failure), the peer rows and the sessions of bundles 1..k-1
\* are in place after the response, no session was built and no peer row
\* stored for bundles k..n, and the pending encryption ended with the fail
\* callback: encrypt is not called again for it, it posts no request and is
\* neither ongoing nor queued.
C38_FailsAtBundleK ==
    [][(Len(log') > Len(log) /\ log'[Len(log) + 1].ev = "parsed") =>
       \A i \in 1..Len(posted), bundles \in ServerBundleLists :
          \A k \in 1..Len(bundles) :
              (/\ log'[Len(log) + 1] = Event("parsed", posted[i].userData.id,
                                             TRUE, DevicesOf(bundles))
               /\ FirstRefused(bundles, k)
               /\ ResponsePeerBundle(i, bundles, NthEkSecret(answered))) =>
                  LET id == posted[i].userData.id
                      peers == peerStore'[SelfDevice]
                  IN  /\ \A j \in 1..(k - 1) :
                            LET b == bundles[j] IN
                            /\ PeerRow(peers, b.deviceId) # 0
                            /\ peers[PeerRow(peers, b.deviceId)].Ik = b.Ik
                            /\ b.deviceId \in DOMAIN cache'
                            /\ b.deviceId \notin DOMAIN cache =>
                                  InitMessageOf(cache'[b.deviceId], b)
                      /\ \A j \in k..Len(bundles) :
                            LET d == bundles[j].deviceId IN
                            /\ d \in DOMAIN cache' =>
                                  (d \in DOMAIN cache /\ cache'[d] = cache[d])
                            /\ PeerRow(peers, d) =
                                  PeerRow(peerStore[SelfDevice], d)
                      /\ DOMAIN cache' \subseteq
                            DOMAIN cache \cup
                                {bundles[j].deviceId : j \in 1..(k - 1)}
                      /\ Event("callback", id, FALSE, {}) \in NewEvents
                      /\ \A e \in NewEvents :
                            e.id = id =>
                                e.ev \in {"parsed", "built", "callback", "release"}
                                /\ (e.ev = "callback" => ~e.ok)
                      /\ \A p \in 1..Len(posted') : posted'[p].userData.id # id
                      /\ \A q \in 1..Len(queue') : queue'[q].id # id
                      /\ \A o \in 1..Len(ongoing') : ongoing'[o].id # id]_vars

\* The response to a request for B and C brought the bundle of C and then a
\* refused bundle of B: C has its peer row and its session, B has neither,
\* and the request ended with the fail callback and nothing after it.
C38_Witness ==
    /\ issued = 1
    /\ answered = 1
    /\ Len(log) = 6
    /\ log[2] = Event("post", 1, TRUE, {"B", "C"})
    /\ log[3] = Event("parsed", 1, TRUE, {"B", "C"})
    /\ log[4] = Event("built", 1, FALSE, {"C"})
    /\ log[5] = Event("callback", 1, FALSE, {})
    /\ log[6] = Event("release", 1, TRUE, {})
    /\ DOMAIN cache = {"C"}
    /\ PeerRow(peerStore[SelfDevice], "C") # 0
    /\ PeerRow(peerStore[SelfDevice], "B") = 0
    /\ posted = <<>> /\ ongoing = <<>> /\ queue = <<>>

(***************************************************************************)
(* SpecAD: the AD derivation inputs of the sessions between an initiator   *)
(* and a responder whose identity keys are fixed and whose device ids are  *)
(* strings of one or two characters.                                       *)
(***************************************************************************)
MaxDerivations == 2

\* The device ids an instance may be created with.
DeviceIdStrings == {"A", "B", "C", "AB", "BC"}

\* The identity keys of the initiator and of the responder.
InitiatorIk == EdPublic(IkSecret["A"])
ResponderIk == EdPublic(IkSecret["B"])

\* X3DH_init_sender_session computes the AD input of the session with the
\* device of a bundle: its own identity key and device id come first.
SenderADInput(selfDeviceId, peerDeviceId) ==
    /\ Len(log) < MaxDerivations
    /\ log' = Append(log, [ev |-> "AD_input", side |-> "sender",
                           initiator |-> selfDeviceId,
                           responder |-> peerDeviceId,
                           AD_input |-> ADInput(InitiatorIk, ResponderIk,
                                                selfDeviceId, peerDeviceId)])
    /\ UNCHANGED <<x3dhVars, localUser, ongoing, queue, posted, issued, answered,
                   parserVars>>

\* X3DH_init_receiver_session computes the AD input of the session with the
\* sender of an init message: the identity key and the device id of the
\* sender come first.
ReceiverADInput(senderDeviceId, selfDeviceId) ==
    /\ Len(log) < MaxDerivations
    /\ log' = Append(log, [ev |-> "AD_input", side |-> "receiver",
                           initiator |-> senderDeviceId,
                           responder |-> selfDeviceId,
                           AD_input |-> ADInput(InitiatorIk, ResponderIk,
                                                senderDeviceId, selfDeviceId)])
    /\ UNCHANGED <<x3dhVars, localUser, ongoing, queue, posted, issued, answered,
                   parserVars>>

NextAD ==
    \/ \E selfDeviceId, peerDeviceId \in DeviceIdStrings :
          SenderADInput(selfDeviceId, peerDeviceId)
    \/ \E senderDeviceId, selfDeviceId \in DeviceIdStrings :
          ReceiverADInput(senderDeviceId, selfDeviceId)

SpecAD == Init /\ [][NextAD]_vars

\* C39 as stated: the identity keys being fixed, two different pairs
\* (initiator device id, responder device id) give different AD derivation
\* inputs.
C39_Original ==
    \A j, k \in DOMAIN log :
        <<log[j].initiator, log[j].responder>> # <<log[k].initiator, log[k].responder>>
            => log[j].AD_input # log[k].AD_input

(***************************************************************************)
(* SpecFetch: one Lime instance, the application calling encrypt and the   *)
(* X3DH server answering every bundle request, as many as are posted, with *)
(* a well-formed peerBundle message.  The log keeps the events of the last *)
(* response only, headed by the devices the answered request asked for.    *)
(***************************************************************************)
\* belle-sip hands process_response the peerBundle message, holding
\* bundles, that answers posted request i.
FetchAnswered(i, bundles) ==
    /\ limeObj = "alive"
    /\ i \in 1..Len(posted)
    /\ Commit(process_response(
                  [Current EXCEPT
                      !.posted = Without(@, i),
                      !.log = <<Event("answer", posted[i].userData.id, TRUE,
                                      posted[i].devices)>>],
                  posted[i].userData,
                  Answer("ok", "peerBundle", "", TRUE, bundles),
                  NthEkSecret(0)))
    /\ UNCHANGED <<limeObj, opkStore, lastCall, received, spkStore, sessionStore,
                   issued, answered, parserVars>>

NextFetch ==
    \/ \E recipients \in RecipientLists : AppEncrypt(recipients)
    \/ \E i \in 1..Len(posted), bundles \in ServerBundleLists :
          FetchAnswered(i, bundles)

\* The server does not leave a posted request without an answer for ever:
\* it answers at least with a message of no bundle.
SpecFetch ==
    /\ Init
    /\ [][NextFetch]_vars
    /\ WF_vars(\E i \in 1..Len(posted) : FetchAnswered(i, <<>>))

\* The last response answered the request id and lacked the bundle of a
\* device the request asked for.
LackingAnswer(id) ==
    /\ Len(log) >= 2
    /\ log[1].ev = "answer" /\ log[1].id = id
    /\ log[2].ev = "parsed"
    /\ ~(log[1].devs \subseteq log[2].devs)

\* The callback of request id is among the events of the log.
CallbackIn(id) == \E k \in DOMAIN log : log[k].ev = "callback" /\ log[k].id = id

\* C40 as stated: after a well-formed peerBundle response that lacks the
\* bundle of a requested device (a response of no bundle included), the
\* suspended encryption still ends with its callback: it is not queued and
\* fetched again without end.
C40_Original ==
    \A id \in 1..MaxEncrypts : LackingAnswer(id) ~> CallbackIn(id)

====
